---- MODULE Spec2Model ----
(***************************************************************************)
(* codesprouts: the lesson-progress service (LessonsService) and the       *)
(* domain service (DomainsService) as state machines over the hosted       *)
(* store they call.                                                        *)
(***************************************************************************)
EXTENDS Integers, Sequences, FiniteSets, Bags, TLC

(***************************************************************************)
(* Bounds of the model.                                                    *)
(***************************************************************************)
\* rows the user_lesson_progress table holds for one (user, lesson) pair
MaxRowsPerKey == 2
\* completed lessons of one user in the tables getUserStats is applied to
MaxCompleted == 9
\* page sizes the registrar directory is walked with: 1..MaxPageSize
MaxPageSize == 30
\* characters put before and after the body of a candidate domain label
MaxAffix == 2
\* how far below page 1 and beyond the directory's size a requested page lies
MaxPageOut == 3
\* labels handed to searchDomain and, as a list, to checkMultipleDomains
MaxLabels == 6
\* onEndReached events of the registrar list of the search screen
MaxEnded == 2
\* auth-state-change callbacks that await their profile at one time
MaxEvents == 2

(***************************************************************************)
(* Values.                                                                 *)
(***************************************************************************)
\* JavaScript null / undefined in a data or completed_at position
NullTime == 0
Null == [null |-> TRUE]
\* an absent (undefined) property of a string type
Undefined == "<undefined>"

Min(a, b) == IF a < b THEN a ELSE b
Max(a, b) == IF a > b THEN a ELSE b

\* identities the callers pass
UserIds == {"u1", "u2"}
\* the (user, lesson) pairs the calls are made for
ProgressKeys == {<<"u1", 1>>, <<"u1", 2>>, <<"u2", 1>>}
\* the same, and a lesson id with no row in the lessons table
CompleteKeys == ProgressKeys \cup {<<"u1", 99>>}
\* the hosted lessons table (read-only for the app)
lessons == {[id |-> i, xp_reward |-> 40 + 10 * i] : i \in 1..(MaxCompleted + 1)}
\* percentages passed to updateProgress
Percentages == {-5, 130}
\* readings of the wall clock, new Date()
Timestamps == {1, 2}
\* how one request to the backend ends: a response without error, a response
\* carrying an error object, or a thrown exception (network failure)
Outcomes == {"ok", "error", "throw"}
BackendMessage == "backend error"
ThrownMessage == "Network request failed"
Contexts == {1, 2}

VARIABLES
  user_lesson_progress, \* the hosted table: a bag of rows (no uniqueness enforced)
  ctx,                  \* per calling context: the LessonsService call in flight
  call,                 \* the DomainsService call, or single-step operation, under way
  pager,                \* a walk through the pages of the registrar directory
  authState,            \* the AuthProvider's state { user, loading, error }
  AsyncStorage          \* the keys of the local persisted session cache

vars == <<user_lesson_progress, ctx, call, pager, authState, AsyncStorage>>

(***************************************************************************)
(* The hosted store, as the query builder calls of the service use it.     *)
(***************************************************************************)
\* the rows .eq('user_id', u).eq('lesson_id', l) selects
MatchingRows(tbl, userId, lessonId) ==
  {r \in DOMAIN tbl : r.user_id = userId /\ r.lesson_id = lessonId}

CountRows(tbl, userId, lessonId) ==
  BagCardinality([r \in MatchingRows(tbl, userId, lessonId) |-> tbl[r]])

\* an update that leaves a completed row as it is
UpdateRows_KeepCompleted(tbl, userId, lessonId, data) ==
  LET hit == MatchingRows(tbl, userId, lessonId)
      k == CountRows(tbl, userId, lessonId)
      rest == [r \in (DOMAIN tbl) \ hit |-> tbl[r]]
  IN  IF k = 0 \/ \E r \in hit : r.completed THEN tbl
      ELSE rest (+) [r \in {data} |-> k]

\* .update(data).eq('user_id', u).eq('lesson_id', l): every matching row is overwritten
UpdateRows(tbl, userId, lessonId, data) ==
  LET hit == MatchingRows(tbl, userId, lessonId)
      k == CountRows(tbl, userId, lessonId)
      rest == [r \in (DOMAIN tbl) \ hit |-> tbl[r]]
  IN  IF k = 0 THEN tbl ELSE rest (+) [r \in {data} |-> k]

\* .insert([data]): one more row
InsertRow(tbl, data) == tbl (+) SetToBag({data})

Failure(message) == [success |-> FALSE, data |-> Null, error |-> message]
Success(data) == [success |-> TRUE, data |-> data, error |-> ""]
NoResult == [success |-> FALSE, data |-> Null, error |-> "pending"]

(***************************************************************************)
(* LessonsService                                                          *)
(***************************************************************************)
\* getLesson: .from('lessons').select('*').eq('id', lessonId).single()
GetLesson(lessonId, outcome) ==
  LET hit == {x \in lessons : x.id = lessonId}
  IN  IF outcome = "throw" THEN Failure(ThrownMessage)
      ELSE IF outcome = "error" THEN Failure(BackendMessage)
      ELSE IF Cardinality(hit) # 1 THEN Failure("PGRST116")
      ELSE Success(CHOOSE x \in hit : TRUE)

\* getUserProgress: .single() answers PGRST116 unless exactly one row matches;
\* that code is not treated as an error, and data is then null
\* getUserProgress without the exception for the code PGRST116
GetUserProgress_NotFoundFails(tbl, userId, lessonId, outcome) ==
  LET hit == MatchingRows(tbl, userId, lessonId)
  IN  IF outcome = "throw" THEN Failure(ThrownMessage)
      ELSE IF outcome = "error" THEN Failure(BackendMessage)
      ELSE IF CountRows(tbl, userId, lessonId) = 1
           THEN Success(CHOOSE r \in hit : TRUE)
           ELSE Failure("JSON object requested, multiple (or no) rows returned")

GetUserProgress(tbl, userId, lessonId, outcome) ==
  LET hit == MatchingRows(tbl, userId, lessonId)
  IN  IF outcome = "throw" THEN Failure(ThrownMessage)
      ELSE IF outcome = "error" THEN Failure(BackendMessage)
      ELSE IF CountRows(tbl, userId, lessonId) = 1
           THEN Success(CHOOSE r \in hit : TRUE)
           ELSE Success(Null)

\* updateProgress with completed: progress > 100
ProgressData_Above100(userId, lessonId, progress, now) ==
  [user_id |-> userId,
   lesson_id |-> lessonId,
   progress |-> Min(Max(progress, 0), 100),
   completed |-> progress > 100,
   completed_at |-> IF progress > 100 THEN now ELSE NullTime]

\* updateProgress without the upper clamp: Math.max(progress, 0)
ProgressData_NoUpperClamp(userId, lessonId, progress, now) ==
  [user_id |-> userId,
   lesson_id |-> lessonId,
   progress |-> Max(progress, 0),
   completed |-> progress >= 100,
   completed_at |-> IF progress >= 100 THEN now ELSE NullTime]

\* the record updateProgress builds; now is the reading of new Date()
ProgressData(userId, lessonId, progress, now) ==
  [user_id |-> userId,
   lesson_id |-> lessonId,
   progress |-> Min(Max(progress, 0), 100),
   completed |-> progress >= 100,
   completed_at |-> IF progress >= 100 THEN now ELSE NullTime]

\* updateProgress that always inserts
WriteKind_AlwaysInsert(existingProgress) == "insert"

\* if (existingProgress.data) ... update ... else ... insert
WriteKind(existingProgress) ==
  IF existingProgress.data # Null THEN "update" ELSE "insert"

Idle == [pc |-> "idle", op |-> "none", userId |-> "", lessonId |-> 0,
         progress |-> 0, lessonResult |-> NoResult,
         existingProgress |-> NoResult, progressData |-> Null,
         requests |-> 0, result |-> NoResult]

\* A context holds the locals of the call it runs (userId, lessonId, progress,
\* lessonResult, existingProgress, progressData), the request it awaits (pc),
\* the requests issued so far against user_lesson_progress, and, once the call
\* has returned, its result.
\* updateProgress is entered: its first statement issues getUserProgress
CallUpdateProgress(c, userId, lessonId, progress) ==
  /\ ctx[c].pc = "idle"
  /\ ctx' = [ctx EXCEPT ![c] =
       [Idle EXCEPT !.pc = "getUserProgress", !.op = "updateProgress",
                    !.userId = userId, !.lessonId = lessonId,
                    !.progress = progress, !.requests = 1]]
  /\ UNCHANGED <<user_lesson_progress, call, pager, authState, AsyncStorage>>

\* getUserProgress settles; updateProgress builds progressData and issues the
\* update or the insert
GetUserProgressReturns(c, outcome, now) ==
  /\ ctx[c].pc = "getUserProgress"
  /\ LET existingProgress ==
           GetUserProgress(user_lesson_progress, ctx[c].userId, ctx[c].lessonId, outcome)
     IN  ctx' = [ctx EXCEPT ![c].pc = WriteKind(existingProgress),
                            ![c].existingProgress = existingProgress,
                            ![c].progressData =
                               ProgressData(ctx[c].userId, ctx[c].lessonId,
                                            ctx[c].progress, now),
                            ![c].requests = @ + 1]
  /\ UNCHANGED <<user_lesson_progress, call, pager, authState, AsyncStorage>>

\* what .update(...).select().single() answers and leaves in the table.  With
\* exactly one matching row the row is overwritten and returned; with none or
\* several .single() answers an error, and for several the backend either has
\* overwritten them all or has rolled the statement back.
UpdateOutcomes(tbl, data, outcome) ==
  LET k == CountRows(tbl, data.user_id, data.lesson_id)
      applied == UpdateRows(tbl, data.user_id, data.lesson_id, data)
  IN  IF outcome = "throw" THEN {[table |-> tbl, result |-> Failure(ThrownMessage)]}
      ELSE IF outcome = "error" THEN {[table |-> tbl, result |-> Failure(BackendMessage)]}
      ELSE IF k = 1 THEN {[table |-> applied, result |-> Success(data)]}
      ELSE {[table |-> t, result |-> Failure("PGRST116")] : t \in {tbl, applied}}

\* what .insert([...]).select().single() answers and leaves in the table; a
\* store that rejects the row (a uniqueness constraint) is the outcome "error"
InsertOutcomes(tbl, data, outcome) ==
  IF outcome = "throw" THEN {[table |-> tbl, result |-> Failure(ThrownMessage)]}
  ELSE IF outcome = "error" THEN {[table |-> tbl, result |-> Failure(BackendMessage)]}
  ELSE {[table |-> InsertRow(tbl, data), result |-> Success(data)]}

\* the write settles and updateProgress (and a completeLesson that delegated
\* to it) returns its result
WriteReturns(c, outcome) ==
  /\ ctx[c].pc \in {"update", "insert"}
  /\ (ctx[c].pc = "insert" /\ outcome = "ok") =>
       CountRows(user_lesson_progress, ctx[c].userId, ctx[c].lessonId) < MaxRowsPerKey
  /\ \E w \in (IF ctx[c].pc = "update"
               THEN UpdateOutcomes(user_lesson_progress, ctx[c].progressData, outcome)
               ELSE InsertOutcomes(user_lesson_progress, ctx[c].progressData, outcome)) :
       /\ user_lesson_progress' = w.table
       /\ ctx' = [ctx EXCEPT ![c].pc = "idle", ![c].result = w.result]
  /\ UNCHANGED <<call, pager, authState, AsyncStorage>>

\* completeLesson is entered: its first statement issues getLesson
CallCompleteLesson(c, userId, lessonId) ==
  /\ ctx[c].pc = "idle"
  /\ ctx' = [ctx EXCEPT ![c] =
       [Idle EXCEPT !.pc = "getLesson", !.op = "completeLesson",
                    !.userId = userId, !.lessonId = lessonId]]
  /\ UNCHANGED <<user_lesson_progress, call, pager, authState, AsyncStorage>>

\* completeLesson that tests lessonResult.success only after the delegation
CompleteLessonStep_NoCheck(c, lessonResult) ==
  [c EXCEPT !.pc = "getUserProgress", !.lessonResult = lessonResult,
            !.progress = 100, !.requests = 1]

\* getLesson settles: 'Lesson not found', or updateProgress(userId, lessonId, 100)
CompleteLessonStep(c, lessonResult) ==
  IF ~lessonResult.success \/ lessonResult.data = Null
  THEN [c EXCEPT !.pc = "idle", !.lessonResult = lessonResult,
                 !.result = Failure("Lesson not found")]
  ELSE [c EXCEPT !.pc = "getUserProgress", !.lessonResult = lessonResult,
                 !.progress = 100, !.requests = 1]

GetLessonReturns(c, outcome) ==
  /\ ctx[c].pc = "getLesson"
  /\ ctx' = [ctx EXCEPT ![c] =
               CompleteLessonStep(ctx[c], GetLesson(ctx[c].lessonId, outcome))]
  /\ UNCHANGED <<user_lesson_progress, call, pager, authState, AsyncStorage>>

\* getAllUserProgress: .from('user_lesson_progress').select('*').eq('user_id', userId)
GetAllUserProgress(tbl, userId, outcome) ==
  IF outcome = "throw" THEN Failure(ThrownMessage)
  ELSE IF outcome = "error" THEN Failure(BackendMessage)
  ELSE Success([r \in {x \in DOMAIN tbl : x.user_id = userId} |-> tbl[r]])

RECURSIVE SumRewards(_)
SumRewards(S) ==
  IF S = {} THEN 0
  ELSE LET l == CHOOSE x \in S : TRUE IN l.xp_reward + SumRewards(S \ {l})

\* getUserStats that totals the xp_reward of the completed lessons
GetUserStats_LessonRewards(tbl, userId, outcome) ==
  LET progressResult == GetAllUserProgress(tbl, userId, outcome)
  IN  IF ~progressResult.success THEN Failure(progressResult.error)
      ELSE
        LET allProgress == progressResult.data
            done == {p \in DOMAIN allProgress : p.completed}
            completedLessons == BagCardinality([p \in done |-> allProgress[p]])
            totalXP == SumRewards({l \in lessons : \E p \in done : p.lesson_id = l.id})
        IN  Success([totalXP |-> totalXP,
                     level |-> (totalXP \div 200) + 1,
                     completedLessons |-> completedLessons,
                     streakDays |-> 0,
                     badgesEarned |-> completedLessons \div 5])

\* getUserStats
GetUserStats(tbl, userId, outcome) ==
  LET progressResult == GetAllUserProgress(tbl, userId, outcome)
  IN  IF ~progressResult.success
      THEN Failure(IF progressResult.error # "" THEN progressResult.error
                   ELSE "Failed to fetch user stats")
      ELSE
        LET allProgress == progressResult.data
            completedLessons ==
              BagCardinality([p \in {x \in DOMAIN allProgress : x.completed}
                                |-> allProgress[p]])
            totalXP == completedLessons * 50
            level == (totalXP \div 200) + 1
        IN  Success([totalXP |-> totalXP,
                     level |-> level,
                     completedLessons |-> completedLessons,
                     streakDays |-> 0,
                     badgesEarned |-> completedLessons \div 5])

(***************************************************************************)
(* DomainsService.  A string is a sequence of one-character strings.       *)
(***************************************************************************)
kenicRegistrars ==
  << "truehost", "kwe", "sasahost", "webhost", "hostpinnacle", "kenic",
     "domainkenya", "hostingreview", "smartweb", "webcom", "hostpoa",
     "digitalocean", "cloudflare", "hostgator", "namecheap", "godaddy",
     "bluehost", "hostinger", "siteground", "dreamhost" >>

\* Array.prototype.slice(start, end): negative indices count from the end
Slice(s, start, end) ==
  LET n == Len(s)
      from == IF start < 0 THEN Max(n + start, 0) ELSE Min(start, n)
      to == IF end < 0 THEN Max(n + end, 0) ELSE Min(end, n)
  IN  IF from < to THEN SubSeq(s, from + 1, to) ELSE <<>>

\* getRegistrarsPaginated that always announces a further page
GetRegistrarsPaginated_HasMoreAlways(page, limit) ==
  LET startIndex == (page - 1) * limit
      endIndex == startIndex + limit
  IN  [registrars |-> Slice(kenicRegistrars, startIndex, endIndex), hasMore |-> TRUE]

\* getRegistrarsPaginated with hasMore: endIndex <= kenicRegistrars.length
GetRegistrarsPaginated_HasMoreInclusive(page, limit) ==
  LET startIndex == (page - 1) * limit
      endIndex == startIndex + limit
  IN  [registrars |-> Slice(kenicRegistrars, startIndex, endIndex),
       hasMore |-> endIndex <= Len(kenicRegistrars),
       total |-> Len(kenicRegistrars)]

\* getRegistrarsPaginated with startIndex = page * limit
GetRegistrarsPaginated_ZeroBased(page, limit) ==
  LET startIndex == page * limit
      endIndex == startIndex + limit
  IN  [registrars |-> Slice(kenicRegistrars, startIndex, endIndex),
       hasMore |-> endIndex < Len(kenicRegistrars),
       total |-> Len(kenicRegistrars)]

\* getRegistrarsPaginated
GetRegistrarsPaginated(page, limit) ==
  LET startIndex == (page - 1) * limit
      endIndex == startIndex + limit
  IN  [registrars |-> Slice(kenicRegistrars, startIndex, endIndex),
       hasMore |-> endIndex < Len(kenicRegistrars),
       total |-> Len(kenicRegistrars)]

UpperCase == << "A", "B", "C", "D", "E", "F", "G", "H", "I", "J", "K", "L", "M",
                "N", "O", "P", "Q", "R", "S", "T", "U", "V", "W", "X", "Y", "Z" >>
LowerCase == << "a", "b", "c", "d", "e", "f", "g", "h", "i", "j", "k", "l", "m",
                "n", "o", "p", "q", "r", "s", "t", "u", "v", "w", "x", "y", "z" >>
Digits == {"0", "1", "2", "3", "4", "5", "6", "7", "8", "9"}
WhiteSpace == {" ", "\t", "\n"}
Range(f) == {f[i] : i \in DOMAIN f}

\* String.prototype.toLowerCase
ToLowerCase(s) ==
  [i \in 1..Len(s) |->
     IF \E j \in 1..26 : UpperCase[j] = s[i]
     THEN LowerCase[CHOOSE j \in 1..26 : UpperCase[j] = s[i]]
     ELSE s[i]]

\* String.prototype.trim
Trim(s) ==
  LET black == {i \in 1..Len(s) : s[i] \notin WhiteSpace}
  IN  IF black = {} THEN <<>>
      ELSE SubSeq(s, CHOOSE i \in black : \A j \in black : i <= j,
                     CHOOSE i \in black : \A j \in black : i >= j)

\* the longest label validateDomainName accepts
MaxDomainLength == 63

\* /^[a-z0-9]([a-z0-9-]*[a-z0-9])?$/.test(s)
DomainRegexTest(s) ==
  /\ Len(s) >= 1
  /\ s[1] \in Range(LowerCase) \cup Digits
  /\ Len(s) > 1 =>
       /\ s[Len(s)] \in Range(LowerCase) \cup Digits
       /\ \A i \in 2..(Len(s) - 1) : s[i] \in Range(LowerCase) \cup Digits \cup {"-"}

Invalid(message) == [isValid |-> FALSE, error |-> message]

\* validateDomainName with cleanDomain.length >= 63
ValidateDomainName_TooLongAt63(domain) ==
  LET cleanDomain == Trim(ToLowerCase(domain))
  IN  IF cleanDomain = <<>> THEN Invalid("Domain name cannot be empty")
      ELSE IF Len(cleanDomain) < 1 THEN Invalid("Domain name is too short")
      ELSE IF Len(cleanDomain) >= MaxDomainLength THEN Invalid("Domain name is too long")
      ELSE IF ~DomainRegexTest(cleanDomain)
           THEN Invalid("Domain name contains invalid characters")
      ELSE IF cleanDomain[1] = "-" \/ cleanDomain[Len(cleanDomain)] = "-"
           THEN Invalid("Domain name cannot start or end with a hyphen")
      ELSE [isValid |-> TRUE, error |-> ""]

\* validateDomainName
ValidateDomainName(domain) ==
  LET cleanDomain == Trim(ToLowerCase(domain))
  IN  IF cleanDomain = <<>> THEN Invalid("Domain name cannot be empty")
      ELSE IF Len(cleanDomain) < 1 THEN Invalid("Domain name is too short")
      ELSE IF Len(cleanDomain) > MaxDomainLength THEN Invalid("Domain name is too long")
      ELSE IF ~DomainRegexTest(cleanDomain)
           THEN Invalid("Domain name contains invalid characters")
      ELSE IF cleanDomain[1] = "-" \/ cleanDomain[Len(cleanDomain)] = "-"
           THEN Invalid("Domain name cannot start or end with a hyphen")
      ELSE [isValid |-> TRUE, error |-> ""]

\* getSuggestedDomains with the candidates returned as they are
GetSuggestedDomains_Unfiltered(baseDomain) ==
  << baseDomain,
     baseDomain \o <<"k", "e">>,
     baseDomain \o <<"o", "n", "l", "i", "n", "e">>,
     <<"m", "y">> \o baseDomain,
     baseDomain \o <<"s", "i", "t", "e">>,
     baseDomain \o <<"w", "e", "b">> >>

\* getSuggestedDomains
GetSuggestedDomains(baseDomain) ==
  LET suggestions ==
        << baseDomain,
           baseDomain \o <<"k", "e">>,
           baseDomain \o <<"o", "n", "l", "i", "n", "e">>,
           <<"m", "y">> \o baseDomain,
           baseDomain \o <<"s", "i", "t", "e">>,
           baseDomain \o <<"w", "e", "b">> >>
      Keep(suggestion) == ValidateDomainName(suggestion).isValid
  IN  SelectSeq(suggestions, Keep)

\* getPopularSuggestions
GetPopularSuggestions ==
  << <<"m", "y", "p", "o", "r", "t", "f", "o", "l", "i", "o">>,
     <<"t", "e", "c", "h", "b", "l", "o", "g">>,
     <<"c", "r", "e", "a", "t", "i", "v", "e", "h", "u", "b">>,
     <<"s", "t", "a", "r", "t", "u", "p", "k", "e">>,
     <<"i", "n", "n", "o", "v", "a", "t", "e">>,
     <<"d", "i", "g", "i", "t", "a", "l", "s", "p", "a", "c", "e">>,
     <<"c", "o", "d", "e", "m", "a", "s", "t", "e", "r">>,
     <<"w", "e", "b", "d", "e", "v">>,
     <<"d", "e", "s", "i", "g", "n", "e", "r">>,
     <<"c", "o", "n", "s", "u", "l", "t", "a", "n", "t">> >>

NoCall == [fn |-> "none"]
\* useState<AuthState>({ user: null, loading: true, error: null }); the empty
\* string stands for the null error
NoAuthState == [user |-> Null, loading |-> TRUE, error |-> ""]
NoPager == [limit |-> 0, page |-> 0, registrars |-> <<>>, last |-> Null]

(***************************************************************************)
(* DomainsService.searchDomain: one fetch, then the body of the response.  *)
(***************************************************************************)
DomainExtensions == {".ke", ".co.ke"}

\* a value a rejected fetch or response.json() throws
NetworkError == [isError |-> TRUE, message |-> ThrownMessage]
SyntaxError == [isError |-> TRUE, message |-> "JSON Parse error"]
NonError == [isError |-> FALSE, message |-> ""]

\* error instanceof Error ? error.message : fallback
CatchMessage(error, fallback) == IF error.isError THEN error.message ELSE fallback

\* what the awaited fetch gives: a response with its status, or an exception
Statuses == {200, 404, 500}
FetchOutcomes ==
  {[kind |-> "response", status |-> st] : st \in Statuses}
  \cup {[kind |-> "throw", error |-> e] : e \in {NetworkError, NonError}}

\* what the awaited response.json() gives: the backend's answer, or an exception
JsonOutcomes ==
  {[kind |-> "body", available |-> b] : b \in BOOLEAN}
  \cup {[kind |-> "throw", error |-> SyntaxError]}

\* response.ok
ResponseOk(status) == status \in 200..299

HttpError(status) == "HTTP error: " \o ToString(status)

\* the DomainLookupRequest searchDomain sends
LookupRequest(domain, extension) ==
  [domain |-> Trim(ToLowerCase(domain)), domainType |-> extension]

\* a searchDomain call up to its first await: the request is built and sent
StartLookup(domain, extension) ==
  [arg |-> domain, request |-> LookupRequest(domain, extension),
   pc |-> "fetch", fetched |-> Null, body |-> Null, value |-> NoResult]

Settled(lookup, value) == [lookup EXCEPT !.pc = "settled", !.value = value]

\* the DomainSearchResult with registrars whatever the answer is
SearchResult_AlwaysRegistrars(request, data) ==
  [domain |-> request.domain, extension |-> request.domainType,
   available |-> data.available, registrars |-> kenicRegistrars]

\* the DomainSearchResult built from the request and the backend's answer
SearchResult(request, data) ==
  [domain |-> request.domain, extension |-> request.domainType,
   available |-> data.available,
   registrars |-> IF data.available THEN kenicRegistrars ELSE Null]

\* searchDomain after the awaited fetch, without the test of response.ok
AfterFetch_IgnoreStatus(lookup, outcome) ==
  IF outcome.kind = "throw"
  THEN Settled(lookup, Failure(CatchMessage(outcome.error, "Domain lookup failed")))
  ELSE [lookup EXCEPT !.pc = "json"]

\* searchDomain after the awaited fetch
AfterFetch(lookup, outcome) ==
  IF outcome.kind = "throw"
  THEN Settled(lookup, Failure(CatchMessage(outcome.error, "Domain lookup failed")))
  ELSE IF ~ResponseOk(outcome.status)
       THEN Settled(lookup, Failure(HttpError(outcome.status)))
       ELSE [lookup EXCEPT !.pc = "json"]

\* searchDomain after the awaited response.json()
AfterJson(lookup, outcome) ==
  IF outcome.kind = "throw"
  THEN Settled(lookup, Failure(CatchMessage(outcome.error, "Domain lookup failed")))
  ELSE Settled(lookup, Success(SearchResult(lookup.request, outcome)))

Body(n) == [i \in 1..n |-> "a"]

\* the labels of the calls: upper case, blanks around, digits, hyphens
Label(i) ==
  CASE i % 3 = 0 -> <<"B">> \o Body(i)
    [] i % 3 = 1 -> Body(i) \o <<"-", "7", " ">>
    [] OTHER -> <<" ", "a">> \o Body(i)

\* searchDomain is called: the request goes out
CallSearchDomain(domain, extension) ==
  /\ call = NoCall
  /\ LET lookup == StartLookup(domain, extension)
     IN  call' = [fn |-> "searchDomain", domain |-> domain, extension |-> extension,
                  lookups |-> <<lookup>>, requests |-> <<lookup.request>>,
                  overtaken |-> FALSE, out |-> Null]
  /\ UNCHANGED <<user_lesson_progress, ctx, pager, authState, AsyncStorage>>

\* a lookup has settled: a searchDomain call returns it, a batch keeps waiting
AfterLookup(c, j, lookup) ==
  [c EXCEPT !.lookups[j] = lookup,
            !.overtaken = @ \/ (lookup.pc = "settled"
                                /\ \E k \in 1..(j - 1) : c.lookups[k].pc # "settled"),
            !.out = IF c.fn = "searchDomain" /\ lookup.pc = "settled"
                    THEN lookup.value ELSE @]

\* the fetch of lookup j is answered
FetchReturns(j, outcome) ==
  /\ call # NoCall /\ call.fn \in {"searchDomain", "checkMultipleDomains"}
  /\ j \in 1..Len(call.lookups)
  /\ call.lookups[j].pc = "fetch"
  /\ call' = AfterLookup(call, j,
                AfterFetch([call.lookups[j] EXCEPT !.fetched = outcome], outcome))
  /\ UNCHANGED <<user_lesson_progress, ctx, pager, authState, AsyncStorage>>

\* the body of lookup j's response is read
JsonReturns(j, outcome) ==
  /\ call # NoCall /\ call.fn \in {"searchDomain", "checkMultipleDomains"}
  /\ j \in 1..Len(call.lookups)
  /\ call.lookups[j].pc = "json"
  /\ call' = AfterLookup(call, j,
                AfterJson([call.lookups[j] EXCEPT !.body = outcome], outcome))
  /\ UNCHANGED <<user_lesson_progress, ctx, pager, authState, AsyncStorage>>

(***************************************************************************)
(* DomainsService.checkMultipleDomains: batches of searchDomain calls.     *)
(***************************************************************************)
batchSize == 5

\* domains.slice(i, i + batchSize + 1)
Batch_Wide(domains, i) == Slice(domains, i, i + batchSize + 1)

\* domains.slice(i, i + batchSize)
Batch(domains, i) == Slice(domains, i, i + batchSize)

\* the batch is taken as settled when one of its promises is
AllSettled_Any(lookups, promises) ==
  \E k \in 1..Len(promises) : lookups[promises[k]].pc = "settled"

\* Promise.allSettled(batchPromises) resolves: every promise has settled
AllSettled(lookups, promises) ==
  \A k \in 1..Len(promises) : lookups[promises[k]].pc = "settled"

\* what Promise.allSettled resolves to; searchDomain never rejects
BatchResults(lookups, promises) ==
  [k \in 1..Len(promises) |->
     [status |-> "fulfilled", value |-> lookups[promises[k]].value]]

\* the entry pushed for one settled promise
SettledResult(result, label, extension) ==
  IF result.status = "fulfilled" /\ result.value.success
  THEN result.value.data
  ELSE [domain |-> label, extension |-> extension, available |-> FALSE,
        registrars |-> Null]

\* batchResults.forEach with results.unshift
CollectResults_Unshift(results, batch, batchResults, extension) ==
  LET pushed == [index \in 1..Len(batchResults) |->
                   SettledResult(batchResults[index], batch[index], extension)]
  IN  [index \in 1..Len(pushed) |-> pushed[Len(pushed) + 1 - index]] \o results

\* batchResults.forEach that pushes nothing for a failed lookup
CollectResults_SkipFailed(results, batch, batchResults, extension) ==
  LET ok == SelectSeq([index \in 1..Len(batchResults) |-> index],
                      LAMBDA index : batchResults[index].value.success)
  IN  results \o [m \in 1..Len(ok) |-> batchResults[ok[m]].value.data]

\* batchResults.forEach((result, index) => results.push(...))
CollectResults(results, batch, batchResults, extension) ==
  results \o [index \in 1..Len(batchResults) |->
                SettledResult(batchResults[index], batch[index], extension)]

\* the for loop at its test: the next batch is started, or the call returns
LoopStep(c) ==
  IF c.i < Len(c.domains)
  THEN LET batch == Batch(c.domains, c.i)
           started == [k \in 1..Len(batch) |-> StartLookup(batch[k], c.extension)]
       IN  [c EXCEPT !.batch = batch,
                     !.promises = [k \in 1..Len(batch) |-> Len(c.lookups) + k],
                     !.lookups = @ \o started,
                     !.requests = @ \o [k \in 1..Len(batch) |-> started[k].request],
                     !.pc = "allSettled"]
  ELSE [c EXCEPT !.pc = "done", !.out = Success(c.results)]

\* checkMultipleDomains is called
CallCheckMultipleDomains(domains, extension) ==
  /\ call = NoCall
  /\ call' = LoopStep([fn |-> "checkMultipleDomains", domains |-> domains,
                       extension |-> extension, i |-> 0, results |-> <<>>,
                       batch |-> <<>>, promises |-> <<>>, lookups |-> <<>>,
                       requests |-> <<>>, overtaken |-> FALSE, pc |-> "loop",
                       out |-> Null])
  /\ UNCHANGED <<user_lesson_progress, ctx, pager, authState, AsyncStorage>>

\* the awaited Promise.allSettled resolves: the results are pushed, i advances
AllSettledReturns ==
  /\ call # NoCall /\ call.fn = "checkMultipleDomains"
  /\ call.pc = "allSettled"
  /\ AllSettled(call.lookups, call.promises)
  /\ \E pushed \in {[call EXCEPT
                        !.results = CollectResults(@, call.batch,
                                                   BatchResults(call.lookups, call.promises),
                                                   call.extension),
                        !.i = @ + batchSize]} :
       call' = LoopStep(pushed)
  /\ UNCHANGED <<user_lesson_progress, ctx, pager, authState, AsyncStorage>>

(***************************************************************************)
(* The operations that are one or two awaited requests inside try/catch:   *)
(* AuthService, and the lesson queries of LessonsService.  Each is given   *)
(* as what it does with the answers its requests get.                      *)
(***************************************************************************)
\* what an awaited request of the backend client gives: { data, error }, or
\* an exception
TypeError == [isError |-> TRUE, message |-> "Cannot read property 'map' of null"]
Row == [id |-> "u1", email |-> "u1@example.com", category |-> "web",
        difficulty |-> "beginner"]
DataAnswer(data) == [kind |-> "data", data |-> data]
ErrorAnswer(code) == [kind |-> "error", code |-> code, message |-> BackendMessage]
ThrowAnswer(error) == [kind |-> "throw", error |-> error]
Answers ==
  {DataAnswer(Row), DataAnswer(Null), ErrorAnswer("PGRST116"), ErrorAnswer("42501"),
   ThrowAnswer(NetworkError), ThrowAnswer(NonError)}

\* how a block of code ends: it returns a result, or throws
Returns(result) == [throws |-> FALSE, result |-> result, error |-> Null]
Throws(error) == [throws |-> TRUE, result |-> Null, error |-> error]

\* try { body } without the catch
Catch_Rethrow(body, fallback) == body

\* try { body } catch (error) { return { success: false, error: ... } }
Catch(body, fallback) ==
  IF body.throws THEN Returns(Failure(CatchMessage(body.error, fallback))) ELSE body

\* const { data, error } = await query; if (error) return failure; return success
QueryResult(a) ==
  IF a.kind = "throw" THEN Throws(a.error)
  ELSE IF a.kind = "error" THEN Returns(Failure(a.message))
  ELSE Returns(Success(a.data))

GetProfile(a) == Catch(QueryResult(a), "Failed to fetch profile")
CreateProfile(a) == Catch(QueryResult(a), "Failed to create profile")
UpdateProfile(a) == Catch(QueryResult(a), "Failed to update profile")

\* the AuthUser built from the provider's user and the awaited profile call
WithProfile(user, profile) ==
  IF profile.throws THEN Throws(profile.error)
  ELSE Returns(Success([id |-> user.id, email |-> user.email,
                        profile |-> profile.result.data]))

\* signIn: signInWithPassword, then getProfile
SignIn(a1, a2) ==
  Catch(IF a1.kind = "throw" THEN Throws(a1.error)
        ELSE IF a1.kind = "error" THEN Returns(Failure(a1.message))
        ELSE IF a1.data = Null THEN Returns(Failure("Authentication failed"))
        ELSE WithProfile(a1.data, GetProfile(a2)),
        "Authentication failed")

\* signUp: auth.signUp, then createProfile
SignUp(a1, a2) ==
  Catch(IF a1.kind = "throw" THEN Throws(a1.error)
        ELSE IF a1.kind = "error" THEN Returns(Failure(a1.message))
        ELSE IF a1.data = Null THEN Returns(Failure("Registration failed"))
        ELSE WithProfile(a1.data, CreateProfile(a2)),
        "Registration failed")

\* signOut: auth.signOut, then AsyncStorage.clear
SignOut(a1, a2) ==
  Catch(IF a1.kind = "throw" THEN Throws(a1.error)
        ELSE IF a1.kind = "error" THEN Returns(Failure(a1.message))
        ELSE IF a2.kind = "throw" THEN Throws(a2.error)
        ELSE Returns(Success(Null)),
        "Sign out failed")

\* getCurrentUser: auth.getUser (its error is not read), then getProfile
GetCurrentUser(a1, a2) ==
  Catch(IF a1.kind = "throw" THEN Throws(a1.error)
        ELSE IF a1.kind = "error" \/ a1.data = Null THEN Returns(Success(Null))
        ELSE WithProfile(a1.data, GetProfile(a2)),
        "Failed to get current user")

\* fetchLessons: the query with the author join, then the one without
FetchLessons(a1, a2) ==
  Catch(IF a1.kind = "throw" THEN Throws(a1.error)
        ELSE IF a1.kind = "data"
             THEN Returns(Success(IF a1.data = Null THEN <<>> ELSE <<a1.data>>))
        ELSE IF a2.kind = "throw" THEN Throws(a2.error)
        ELSE IF a2.kind = "error" THEN Returns(Failure(a2.message))
        ELSE Returns(Success(IF a2.data = Null THEN <<>> ELSE <<a2.data>>)),
        "Failed to fetch lessons")

\* getCategories: data.map throws when data is null
GetCategories(a) ==
  Catch(IF a.kind = "throw" THEN Throws(a.error)
        ELSE IF a.kind = "error" THEN Returns(Failure(a.message))
        ELSE IF a.data = Null THEN Throws(TypeError)
        ELSE Returns(Success({a.data.category})),
        "Failed to fetch categories")

\* getDifficultyLevels
GetDifficultyLevels(a) ==
  Catch(IF a.kind = "throw" THEN Throws(a.error)
        ELSE IF a.kind = "error" THEN Returns(Failure(a.message))
        ELSE IF a.data = Null THEN Throws(TypeError)
        ELSE Returns(Success({a.data.difficulty})),
        "Failed to fetch difficulty levels")

\* the sign-up form: the fields signUp reads, and a role field it does not
SignUpForms ==
  {[email |-> "u1@example.com", password |-> "secret", firstName |-> "A",
    lastName |-> "B", organization |-> o, role |-> r] :
     o \in {Undefined, "school"}, r \in {Undefined, "student", "instructor", "admin"}}

\* signUp with the role taken from the form
SignUpRequests_FormRole(formData, a1) ==
  LET signUp == [to |-> "auth.signUp", email |-> formData.email,
                 password |-> formData.password,
                 data |-> [first_name |-> formData.firstName,
                           last_name |-> formData.lastName,
                           role |-> formData.role,
                           organization |-> formData.organization]]
      insert == [to |-> "profiles.insert", id |-> a1.data.id, email |-> formData.email,
                 first_name |-> formData.firstName, last_name |-> formData.lastName,
                 role |-> formData.role, organization |-> formData.organization]
  IN  IF a1.kind = "data" /\ a1.data # Null THEN <<signUp, insert>> ELSE <<signUp>>

\* the requests signUp sends: auth.signUp with the user metadata, and, when
\* that gave a user, the insert of the profile row
SignUpRequests(formData, a1) ==
  LET signUp == [to |-> "auth.signUp", email |-> formData.email,
                 password |-> formData.password,
                 data |-> [first_name |-> formData.firstName,
                           last_name |-> formData.lastName,
                           role |-> "student",
                           organization |-> formData.organization]]
      insert == [to |-> "profiles.insert", id |-> a1.data.id, email |-> formData.email,
                 first_name |-> formData.firstName, last_name |-> formData.lastName,
                 role |-> "student", organization |-> formData.organization]
  IN  IF a1.kind = "data" /\ a1.data # Null THEN <<signUp, insert>> ELSE <<signUp>>

\* the profiles table after the insert of createProfile is answered
ProfilesAfter(requests, a2) ==
  IF Len(requests) = 2 /\ a2.kind = "data"
  THEN {[r \in {"id", "email", "first_name", "last_name", "role", "organization"}
           |-> requests[2][r]]}
  ELSE {}

AuthOperations ==
  {"signIn", "signUp", "signOut", "getCurrentUser", "getProfile", "createProfile",
   "updateProfile"}
LessonQueries == {"fetchLessons", "getCategories", "getDifficultyLevels"}
LessonReads == {"getLesson", "getUserProgress", "getAllUserProgress", "getUserStats"}

AuthService(fn, a) ==
  CASE fn = "signIn" -> SignIn(a[1], a[2])
    [] fn = "signUp" -> SignUp(a[1], a[2])
    [] fn = "signOut" -> SignOut(a[1], a[2])
    [] fn = "getCurrentUser" -> GetCurrentUser(a[1], a[2])
    [] fn = "getProfile" -> GetProfile(a[1])
    [] fn = "createProfile" -> CreateProfile(a[1])
    [] fn = "updateProfile" -> UpdateProfile(a[1])

LessonsQuery(fn, a) ==
  CASE fn = "fetchLessons" -> FetchLessons(a[1], a[2])
    [] fn = "getCategories" -> GetCategories(a[1])
    [] fn = "getDifficultyLevels" -> GetDifficultyLevels(a[1])

LessonsRead(fn, tbl, userId, lessonId, outcome) ==
  CASE fn = "getLesson" -> GetLesson(lessonId, outcome)
    [] fn = "getUserProgress" -> GetUserProgress(tbl, userId, lessonId, outcome)
    [] fn = "getAllUserProgress" -> GetAllUserProgress(tbl, userId, outcome)
    [] fn = "getUserStats" -> GetUserStats(tbl, userId, outcome)

\* an AuthService operation runs to its end
AuthServiceCall ==
  /\ call # NoCall /\ call.fn \in AuthOperations /\ call.out = Null
  /\ call' = [call EXCEPT !.out = AuthService(call.fn, call.answers)]
  /\ UNCHANGED <<user_lesson_progress, ctx, pager, authState, AsyncStorage>>

\* a lesson query runs to its end
LessonsQueryCall ==
  /\ call # NoCall /\ call.fn \in LessonQueries /\ call.out = Null
  /\ call' = [call EXCEPT !.out = LessonsQuery(call.fn, call.answers)]
  /\ UNCHANGED <<user_lesson_progress, ctx, pager, authState, AsyncStorage>>

\* a read of LessonsService runs to its end
LessonsReadCall ==
  /\ call # NoCall /\ call.fn \in LessonReads /\ call.out = Null
  /\ call' = [call EXCEPT !.out =
                Returns(LessonsRead(call.fn, user_lesson_progress, "u1",
                                    call.lessonId, call.answers[1]))]
  /\ UNCHANGED <<user_lesson_progress, ctx, pager, authState, AsyncStorage>>

(***************************************************************************)
(* LessonsService.fetchLessons, query by query.                            *)
(***************************************************************************)
\* the optional LessonFilter: absent, or category and difficulty, each
\* absent (Undefined), empty or a value
FilterValues(value) == {Undefined, "", value}
LessonFilters ==
  {Null} \cup {[category |-> cat, difficulty |-> d] :
                 cat \in FilterValues("web"), d \in FilterValues("beginner")}

\* if (filter?.category) query = query.eq('category', filter.category)
FilterOf(filter, column) ==
  IF filter = Null THEN Undefined
  ELSE IF filter[column] = Undefined \/ filter[column] = "" THEN Undefined
  ELSE filter[column]

\* the query with the author join
JoinQuery(filter) ==
  [from |-> "lessons", select |-> "*, profiles!lessons_author_id_fkey",
   status |-> "published", order |-> "created_at desc",
   category |-> FilterOf(filter, "category"),
   difficulty |-> FilterOf(filter, "difficulty")]

\* the query without the author join
SimpleQuery(filter) ==
  [from |-> "lessons", select |-> "*",
   status |-> "published", order |-> "created_at desc",
   category |-> FilterOf(filter, "category"),
   difficulty |-> FilterOf(filter, "difficulty")]

\* what an awaited lessons query gives
\* an array of rows
Array(rows) == [array |-> rows]
JoinRows == Array(<<[id |-> 1, profiles |-> "author"]>>)
SimpleRows == Array(<<[id |-> 1]>>)
QueryAnswers(rows) ==
  {DataAnswer(rows), DataAnswer(Null), ErrorAnswer("PGRST200"),
   ThrowAnswer(NetworkError), ThrowAnswer(NonError)}

\* the end of fetchLessons, from the last { data, error } or the exception
LessonsResult(a) ==
  IF a.kind = "throw" THEN Failure(CatchMessage(a.error, "Failed to fetch lessons"))
  ELSE IF a.kind = "error" THEN Failure(a.message)
  ELSE Success(IF a.data = Null THEN Array(<<>>) ELSE a.data)

\* fetchLessons is called: the join query goes out
CallFetchLessons(filter) ==
  /\ call = NoCall
  /\ call' = [fn |-> "fetchLessons", filter |-> filter,
              requests |-> <<JoinQuery(filter)>>, answers |-> <<>>,
              pc |-> "join", out |-> Null]
  /\ UNCHANGED <<user_lesson_progress, ctx, pager, authState, AsyncStorage>>

\* fetchLessons that gives up when the join query returned an error
AfterJoinQuery_NoFallback(c, a) ==
  [c EXCEPT !.answers = Append(@, a), !.pc = "done", !.out = LessonsResult(a)]

\* let { data, error } = await query; if (error) the join-less query goes out
AfterJoinQuery(c, a) ==
  IF a.kind = "error"
  THEN [c EXCEPT !.answers = Append(@, a), !.pc = "simple",
                 !.requests = Append(@, SimpleQuery(c.filter))]
  ELSE [c EXCEPT !.answers = Append(@, a), !.pc = "done", !.out = LessonsResult(a)]

JoinQueryReturns(a) ==
  /\ call # NoCall /\ call.fn = "fetchLessons" /\ call.pc = "join"
  /\ call' = AfterJoinQuery(call, a)
  /\ UNCHANGED <<user_lesson_progress, ctx, pager, authState, AsyncStorage>>

\* const simpleResult = await simpleQuery
SimpleQueryReturns(a) ==
  /\ call # NoCall /\ call.fn = "fetchLessons" /\ call.pc = "simple"
  /\ call' = [call EXCEPT !.answers = Append(@, a), !.pc = "done",
                          !.out = LessonsResult(a)]
  /\ UNCHANGED <<user_lesson_progress, ctx, pager, authState, AsyncStorage>>

(***************************************************************************)
(* LessonDetailScreen.  The screen's state is the record                   *)
(* [lesson, progress, error], kept in call with the percentage its last    *)
(* updateProgress request carried (requested, 0 before the first).  The    *)
(* buttons are disabled while a handler awaits (updating), so a handler    *)
(* runs to its end before the next one starts.                             *)
(***************************************************************************)
\* updateProgress as one call: the tables and results it can end with
UpdateProgress(tbl, userId, lessonId, progress, read, write, now) ==
  LET existingProgress == GetUserProgress(tbl, userId, lessonId, read)
      progressData == ProgressData(userId, lessonId, progress, now)
  IN  IF WriteKind(existingProgress) = "update"
      THEN UpdateOutcomes(tbl, progressData, write)
      ELSE InsertOutcomes(tbl, progressData, write)

\* completeLesson as one call
CompleteLesson(tbl, userId, lessonId, lookup, read, write, now) ==
  LET lessonResult == GetLesson(lessonId, lookup)
  IN  IF ~lessonResult.success \/ lessonResult.data = Null
      THEN {[table |-> tbl, result |-> Failure("Lesson not found")]}
      ELSE UpdateProgress(tbl, userId, lessonId, 100, read, write, now)

Mounted == call # NoCall /\ call.fn = "LessonDetailScreen"

\* loadLessonData, run when the screen is opened for lesson 1 by user "u1"
LoadLessonData(lookup, read) ==
  /\ call = NoCall \/ Mounted
  /\ LET lessonResult == GetLesson(1, lookup)
         progressResult == GetUserProgress(user_lesson_progress, "u1", 1, read)
         requested == IF call = NoCall THEN 0 ELSE call.requested
     IN  call' =
           IF lessonResult.success /\ lessonResult.data # Null
           THEN [fn |-> "LessonDetailScreen", lesson |-> lessonResult.data,
                 progress |-> IF progressResult.success THEN progressResult.data ELSE Null,
                 error |-> "", requested |-> requested]
           ELSE [fn |-> "LessonDetailScreen", lesson |-> Null, progress |-> Null,
                 error |-> lessonResult.error, requested |-> requested]
  /\ UNCHANGED <<user_lesson_progress, ctx, pager, authState, AsyncStorage>>

\* getActionButton: the buttons the screen shows
ActionButtons ==
  IF ~Mounted \/ call.error # "" \/ call.lesson = Null THEN {}
  ELSE IF call.progress = Null THEN {"Start Lesson"}
  ELSE IF call.progress.completed THEN {}
  ELSE {"Continue Learning", "Complete"}

\* a handler's service call settles: if (result.success) setProgress(result.data)
AfterWrite(w, progress) ==
  /\ CountRows(w.table, "u1", 1) <= MaxRowsPerKey
  /\ user_lesson_progress' = w.table
  /\ call' = [call EXCEPT !.progress = IF w.result.success THEN w.result.data ELSE @,
                          !.requested = progress]
  /\ UNCHANGED <<ctx, pager, authState, AsyncStorage>>

HandleStartLesson(read, write, now) ==
  /\ "Start Lesson" \in ActionButtons
  /\ \E w \in UpdateProgress(user_lesson_progress, "u1", call.lesson.id, 10,
                             read, write, now) :
       AfterWrite(w, 10)

HandleContinueLesson(read, write, now) ==
  /\ "Continue Learning" \in ActionButtons
  /\ LET newProgress == Min(call.progress.progress + 20, 100)
     IN  \E w \in UpdateProgress(user_lesson_progress, "u1", call.lesson.id,
                                 newProgress, read, write, now) :
           AfterWrite(w, newProgress)

\* the confirmed 'Complete': completeLesson asks for 100 once its lesson
\* lookup has succeeded
HandleCompleteLesson(lookup, read, write, now) ==
  /\ "Complete" \in ActionButtons
  /\ \E w \in CompleteLesson(user_lesson_progress, "u1", call.lesson.id,
                             lookup, read, write, now) :
       AfterWrite(w, IF GetLesson(call.lesson.id, lookup).success
                     THEN 100 ELSE call.requested)

(***************************************************************************)
(* DomainsScreen.  The screen's state (searchResult, registrars, loading,  *)
(* error, showRegistrars, registrarPage) is kept in pager, with the number *)
(* of onEndReached events of the registrar list (ended); the empty string  *)
(* stands for the null error.  searchTerm and selectedExtension are what   *)
(* the user has entered when the search button is pressed.                 *)
(***************************************************************************)
DomainsScreen ==
  [searchResult |-> Null, registrars |-> <<>>, loading |-> FALSE, error |-> "",
   showRegistrars |-> FALSE, registrarPage |-> 1, ended |-> 0]

\* a search button that stays enabled while loading
SearchButtonEnabled_WhileLoading(screen, searchTerm) == Trim(searchTerm) # <<>>

\* <Button onPress={handleSearch} loading={loading} disabled={!searchTerm.trim()}>
SearchButtonEnabled(screen, searchTerm) ==
  ~screen.loading /\ Trim(searchTerm) # <<>>

\* handleSearch up to its await: the validation, then the lookup goes out
HandleSearch(searchTerm, selectedExtension) ==
  /\ SearchButtonEnabled(pager, searchTerm)
  /\ LET validation == ValidateDomainName(searchTerm)
         lookup == StartLookup(Trim(ToLowerCase(searchTerm)), selectedExtension)
     IN  IF ~validation.isValid
         THEN /\ pager' = [pager EXCEPT !.error = validation.error]
              /\ call' = call
         ELSE /\ pager' = [pager EXCEPT !.loading = TRUE, !.error = ""]
              /\ call' = [fn |-> "searchDomain",
                          domain |-> Trim(ToLowerCase(searchTerm)),
                          extension |-> selectedExtension,
                          lookups |-> <<lookup>>, requests |-> <<lookup.request>>,
                          overtaken |-> FALSE, out |-> Null]
  /\ UNCHANGED <<user_lesson_progress, ctx, authState, AsyncStorage>>

\* handleSearch after its await: the result is shown, loading ends
AfterSearch(screen, result) ==
  IF ~result.success
  THEN [screen EXCEPT !.error = IF result.error # "" THEN result.error
                                ELSE "Search failed",
                      !.loading = FALSE]
  ELSE IF result.data.available
  THEN [screen EXCEPT !.searchResult = result.data,
                      !.registrars = GetRegistrarsPaginated(1, 20).registrars,
                      !.showRegistrars = TRUE,
                      !.registrarPage = 1,
                      !.loading = FALSE]
  ELSE [screen EXCEPT !.searchResult = result.data,
                      !.showRegistrars = FALSE,
                      !.loading = FALSE]

SearchDomainReturns ==
  /\ pager.loading
  /\ call # NoCall /\ call.fn = "searchDomain" /\ call.out # Null
  /\ pager' = AfterSearch(pager, call.out)
  /\ call' = NoCall
  /\ UNCHANGED <<user_lesson_progress, ctx, authState, AsyncStorage>>

\* loadMoreRegistrars, the onEndReached of the registrar list
LoadMoreRegistrars ==
  /\ pager.showRegistrars /\ Len(pager.registrars) > 0
  /\ pager.ended < MaxEnded
  /\ LET nextPage == pager.registrarPage + 1
         more == GetRegistrarsPaginated(nextPage, 10)
     IN  pager' = IF more.hasMore
                  THEN [pager EXCEPT !.registrars = @ \o more.registrars,
                                     !.registrarPage = nextPage,
                                     !.ended = @ + 1]
                  ELSE [pager EXCEPT !.ended = @ + 1]
  /\ UNCHANGED <<user_lesson_progress, ctx, call, authState, AsyncStorage>>

\* the onRetry of the error message: setError(null)
DismissError ==
  /\ pager.error # ""
  /\ pager' = [pager EXCEPT !.error = ""]
  /\ UNCHANGED <<user_lesson_progress, ctx, call, authState, AsyncStorage>>

(***************************************************************************)
(* AuthProvider.  authState is its React state; AsyncStorage holds the     *)
(* key under which the auth client persists its session; call holds what   *)
(* is in flight: the checkAuthState of the mount, the handler under way    *)
(* (signIn, signUp or signOut) and the auth-state-change callbacks that    *)
(* await their profile.  A callback or check that was already in flight    *)
(* when a sign-out was triggered is marked stale.                          *)
(***************************************************************************)
SessionKey == "sb-auth-token"
Awaiting(pc) == [pc |-> pc, fn |-> "none", result |-> NoResult, stale |-> FALSE]
AuthProvider ==
  [fn |-> "AuthProvider", checkAuthState |-> Awaiting("getCurrentUser"),
   handler |-> Awaiting("idle"), events |-> <<>>]

\* what the requests of the auth client and of the profiles table give
UserAnswers == {DataAnswer(Row), ErrorAnswer("400"), ThrowAnswer(NetworkError)}
ProfileAnswers == {DataAnswer(Row), ErrorAnswer("42501")}
SignOutAnswers == {DataAnswer(Null), ErrorAnswer("500"), ThrowAnswer(NetworkError)}
ClearAnswers == {DataAnswer(Null), ThrowAnswer(NetworkError)}

\* supabase.auth.getUser(): the user of the persisted session, if there is one
GetUserAnswers(storage) ==
  IF SessionKey \in storage THEN {DataAnswer(Row), ThrowAnswer(NetworkError)}
  ELSE {DataAnswer(Null), ThrowAnswer(NetworkError)}

\* AppNavigator: the loading view, the main tabs or the auth stack
AppNavigator ==
  IF authState.loading THEN "Loading"
  ELSE IF authState.user # Null THEN "MainTabs" ELSE "AuthStack"

Providing == call # NoCall /\ call.fn = "AuthProvider"

\* checkAuthState: AuthService.getCurrentUser returns
GetCurrentUserReturns(a1, a2) ==
  /\ Providing /\ call.checkAuthState.pc = "getCurrentUser"
  /\ a1 \in GetUserAnswers(AsyncStorage)
  /\ call' = [call EXCEPT !.checkAuthState.pc = "returned",
                          !.checkAuthState.result = GetCurrentUser(a1, a2).result]
  /\ UNCHANGED <<user_lesson_progress, ctx, pager, authState, AsyncStorage>>

\* checkAuthState after its await: setAuthState({ user: result.data, ... })
CheckAuthStateSettles ==
  /\ Providing /\ call.checkAuthState.pc = "returned"
  /\ LET result == call.checkAuthState.result
     IN  authState' = [user |-> result.data, loading |-> FALSE,
                       error |-> IF result.success THEN ""
                                 ELSE IF result.error # "" THEN result.error
                                 ELSE "Authentication check failed"]
  /\ call' = [call EXCEPT !.checkAuthState.pc = "done"]
  /\ UNCHANGED <<user_lesson_progress, ctx, pager, AsyncStorage>>

\* the listener of AuthService.onAuthStateChange with no session:
\* callback(null), that is setAuthState(prev => ({ ...prev, user, loading: false }))
CallbackNull(state) == [state EXCEPT !.user = Null, !.loading = FALSE]

\* the auth client raises an event (initial session, token refreshed): with
\* a session the listener starts getProfile, without one it calls back null
AuthEvent ==
  /\ Providing
  /\ IF SessionKey \in AsyncStorage
     THEN /\ Len(call.events) < MaxEvents
          /\ call' = [call EXCEPT !.events = Append(@, [Awaiting("getProfile") EXCEPT
                                                         !.result = Success(Row)])]
          /\ authState' = authState
     ELSE /\ authState' = CallbackNull(authState)
          /\ call' = call
  /\ UNCHANGED <<user_lesson_progress, ctx, pager, AsyncStorage>>

\* the listener after its await: callback(authUser)
AfterProfile(state, event, profile) ==
  [state EXCEPT !.user = WithProfile(event.result.data, profile).result.data,
                !.loading = FALSE]

\* the getProfile of the i-th waiting listener returns
EventProfileReturns(i, a) ==
  /\ Providing /\ i \in 1..Len(call.events)
  /\ authState' = AfterProfile(authState, call.events[i], GetProfile(a))
  /\ call' = [call EXCEPT !.events = SubSeq(@, 1, i - 1) \o SubSeq(@, i + 1, Len(@))]
  /\ UNCHANGED <<user_lesson_progress, ctx, pager, AsyncStorage>>

\* signIn or signUp of the provider is called from the auth stack
HandleSignIn(fn) ==
  /\ Providing /\ call.handler.pc = "idle" /\ AppNavigator = "AuthStack"
  /\ authState' = [authState EXCEPT !.loading = TRUE, !.error = ""]
  /\ call' = [call EXCEPT !.handler = [Awaiting("service") EXCEPT !.fn = fn]]
  /\ UNCHANGED <<user_lesson_progress, ctx, pager, AsyncStorage>>

\* AuthService.signIn or signUp returns; a sign-in the auth client accepted
\* has persisted the session and raised an event
SignInReturns(a1, a2) ==
  /\ Providing /\ call.handler.pc = "service" /\ call.handler.fn \in {"signIn", "signUp"}
  /\ LET accepted == a1.kind = "data"
         returned == [call EXCEPT !.handler.pc = "returned",
                                  !.handler.result =
                                     AuthService(call.handler.fn, <<a1, a2>>).result]
     IN  /\ accepted => Len(call.events) < MaxEvents
         /\ AsyncStorage' = IF accepted THEN AsyncStorage \cup {SessionKey}
                            ELSE AsyncStorage
         /\ call' = IF accepted
                    THEN [returned EXCEPT !.events =
                            Append(@, [Awaiting("getProfile") EXCEPT
                                         !.result = Success(Row)])]
                    ELSE returned
  /\ UNCHANGED <<user_lesson_progress, ctx, pager, authState>>

\* signIn or signUp of the provider after its await
SignInSettles ==
  /\ Providing /\ call.handler.pc = "returned" /\ call.handler.fn \in {"signIn", "signUp"}
  /\ LET result == call.handler.result
     IN  authState' =
           IF result.success
           THEN [user |-> result.data, loading |-> FALSE, error |-> ""]
           ELSE [authState EXCEPT !.loading = FALSE,
                                  !.error = IF result.error # "" THEN result.error
                                            ELSE "Sign in failed"]
  /\ call' = [call EXCEPT !.handler = Awaiting("idle")]
  /\ UNCHANGED <<user_lesson_progress, ctx, pager, AsyncStorage>>

\* signOut of the provider is called from the main tabs
HandleSignOut ==
  /\ Providing /\ call.handler.pc = "idle" /\ AppNavigator = "MainTabs"
  /\ authState' = [authState EXCEPT !.loading = TRUE]
  /\ call' = [call EXCEPT
                !.handler = [Awaiting("service") EXCEPT !.fn = "signOut"],
                !.events = [i \in 1..Len(@) |-> [@[i] EXCEPT !.stale = TRUE]],
                !.checkAuthState.stale = (call.checkAuthState.pc # "done")]
  /\ UNCHANGED <<user_lesson_progress, ctx, pager, AsyncStorage>>

\* what AuthService.signOut leaves in the cache: supabase.auth.signOut
\* removes the session when it succeeds, and only then is the cache cleared
StorageAfterSignOut(storage, a1, a2) ==
  IF a1.kind # "data" THEN storage
  ELSE IF a2.kind = "throw" THEN storage \ {SessionKey}
  ELSE {}

\* AuthService.signOut returns; a sign-out the auth client accepted has
\* raised an event without session, for which the listener calls back null
SignOutReturns(a1, a2) ==
  /\ Providing /\ call.handler.pc = "service" /\ call.handler.fn = "signOut"
  /\ AsyncStorage' = StorageAfterSignOut(AsyncStorage, a1, a2)
  /\ authState' = IF a1.kind = "data" THEN CallbackNull(authState) ELSE authState
  /\ call' = [call EXCEPT !.handler.pc = "returned",
                          !.handler.result = SignOut(a1, a2).result]
  /\ UNCHANGED <<user_lesson_progress, ctx, pager>>

\* signOut of the provider after its await: the result is not read
SignOutSettles ==
  /\ Providing /\ call.handler.pc = "returned" /\ call.handler.fn = "signOut"
  /\ authState' = [user |-> Null, loading |-> FALSE, error |-> ""]
  /\ call' = [call EXCEPT !.handler = [Awaiting("idle") EXCEPT !.fn = "signedOut"]]
  /\ UNCHANGED <<user_lesson_progress, ctx, pager, AsyncStorage>>

(***************************************************************************)
(* Spec: one calling context; every backend request may fail.              *)
(***************************************************************************)
Init ==
  /\ user_lesson_progress = EmptyBag
  /\ ctx = [c \in Contexts |-> Idle]
  /\ call = NoCall
  /\ pager = NoPager
  /\ authState = NoAuthState
  /\ AsyncStorage = {}

Next ==
  \/ \E k \in ProgressKeys, p \in Percentages : CallUpdateProgress(1, k[1], k[2], p)
  \/ \E o \in Outcomes, t \in Timestamps : GetUserProgressReturns(1, o, t)
  \/ \E o \in Outcomes : WriteReturns(1, o)
  \/ \E k \in CompleteKeys : CallCompleteLesson(1, k[1], k[2])
  \/ \E o \in Outcomes : GetLessonReturns(1, o)

Spec == Init /\ [][Next]_vars

(***************************************************************************)
(* SpecSequential: calls one after the other, every request succeeds.      *)
(***************************************************************************)
NextSequential ==
  \/ \E k \in ProgressKeys, p \in Percentages : CallUpdateProgress(1, k[1], k[2], p)
  \/ \E t \in Timestamps : GetUserProgressReturns(1, "ok", t)
  \/ WriteReturns(1, "ok")
  \/ \E k \in ProgressKeys : CallCompleteLesson(1, k[1], k[2])
  \/ GetLessonReturns(1, "ok")

SpecSequential == Init /\ [][NextSequential]_vars

(***************************************************************************)
(* SpecConcurrent: two contexts call updateProgress; their reads and       *)
(* writes reach the store in any order.                                    *)
(***************************************************************************)
ConcurrentKeys == {<<"u1", 1>>, <<"u2", 1>>}

NextConcurrent ==
  \/ \E c \in Contexts, k \in ConcurrentKeys, p \in Percentages :
       CallUpdateProgress(c, k[1], k[2], p)
  \/ \E c \in Contexts, t \in Timestamps : GetUserProgressReturns(c, "ok", t)
  \/ \E c \in Contexts : WriteReturns(c, "ok")

SpecConcurrent == Init /\ [][NextConcurrent]_vars

(***************************************************************************)
(* SpecStats: getUserStats applied to the tables a run of successful       *)
(* updateProgress calls leaves: n lessons completed and m started for      *)
(* "u1", k lessons completed for "u2".                                     *)
(***************************************************************************)
StatTable(n, m, k) ==
  SetToBag({ProgressData("u1", i, 100, 1) : i \in 1..n}
           \cup {ProgressData("u1", i, 50, 1) : i \in (n + 1)..(n + m)}
           \cup {ProgressData("u2", i, 130, 2) : i \in 1..k})

InitStats ==
  /\ user_lesson_progress \in
       {StatTable(n, m, k) : n \in 0..MaxCompleted, m \in 0..1, k \in 0..2}
  /\ ctx = [c \in Contexts |-> Idle]
  /\ call = NoCall
  /\ pager = NoPager
  /\ authState = NoAuthState
  /\ AsyncStorage = {}

\* getUserStats runs: one read of user_lesson_progress, then the arithmetic
GetUserStatsCall(userId, outcome) ==
  /\ call = NoCall
  /\ call' = [fn |-> "getUserStats", userId |-> userId, outcome |-> outcome,
              out |-> GetUserStats(user_lesson_progress, userId, outcome)]
  /\ UNCHANGED <<user_lesson_progress, ctx, pager, authState, AsyncStorage>>

\* getUserProgress runs: one read of user_lesson_progress with .single()
GetUserProgressCall(userId, lessonId, outcome) ==
  /\ call = NoCall
  /\ call' = [fn |-> "getUserProgress", userId |-> userId, lessonId |-> lessonId,
              outcome |-> outcome,
              out |-> GetUserProgress(user_lesson_progress, userId, lessonId, outcome)]
  /\ UNCHANGED <<user_lesson_progress, ctx, pager, authState, AsyncStorage>>

NextStats ==
  \/ \E u \in UserIds, o \in Outcomes : GetUserStatsCall(u, o)
  \/ \E k \in ProgressKeys, o \in Outcomes : GetUserProgressCall(k[1], k[2], o)

SpecStats == InitStats /\ [][NextStats]_vars

(***************************************************************************)
(* SpecPure: the single-step computations applied to drawn inputs.         *)
(***************************************************************************)
PercentInputs == (-30)..140
DomainChars == {"B", "7", "-", "_", " "}
Affixes == UNION {[1..n -> DomainChars] : n \in 0..MaxAffix}
BodyLengths == {0, 59, 61, 63, 64}
DomainInputs == {h \o Body(n) \o t : h \in Affixes, t \in Affixes, n \in BodyLengths}

PageInputs == (-MaxPageOut)..(Len(kenicRegistrars) + MaxPageOut)

\* the bases of getSuggestedDomains: around the lengths at which a suffix
\* of 2, 3, 4 or 6 characters reaches the longest valid label
ShortAffixes == {<<>>} \cup {<<ch>> : ch \in DomainChars}
BaseLengths == {0, 3, 56, 57, 58, 59, 60, 61}
BaseInputs == {h \o Body(n) \o t : h \in ShortAffixes, t \in ShortAffixes, n \in BaseLengths}

InitPure ==
  /\ user_lesson_progress = EmptyBag
  /\ ctx = [c \in Contexts |-> Idle]
  /\ call \in {[fn |-> "progressData", progress |-> p, out |-> Null] : p \in PercentInputs}
          \cup {[fn |-> "validateDomainName", domain |-> d, out |-> Null] : d \in DomainInputs}
          \cup {[fn |-> "getRegistrarsPaginated", page |-> p, limit |-> s, out |-> Null] :
                  p \in PageInputs, s \in 1..MaxPageSize}
          \cup {[fn |-> "getSuggestedDomains", baseDomain |-> d, out |-> Null] : d \in BaseInputs}
          \cup {[fn |-> "getPopularSuggestions", out |-> Null]}
          \cup {[fn |-> "signUp", formData |-> f, answers |-> <<a1, a2>>, out |-> Null] :
                  f \in SignUpForms, a1 \in Answers, a2 \in Answers}
  /\ pager = NoPager
  /\ authState = NoAuthState
  /\ AsyncStorage = {}

\* updateProgress builds its record
ProgressDataCall(now) ==
  /\ call.fn = "progressData" /\ call.out = Null
  /\ call' = [call EXCEPT !.out = ProgressData("u1", 1, call.progress, now)]
  /\ UNCHANGED <<user_lesson_progress, ctx, pager, authState, AsyncStorage>>

ValidateDomainNameCall ==
  /\ call.fn = "validateDomainName" /\ call.out = Null
  /\ call' = [call EXCEPT !.out = ValidateDomainName(call.domain)]
  /\ UNCHANGED <<user_lesson_progress, ctx, pager, authState, AsyncStorage>>

GetRegistrarsPaginatedCall ==
  /\ call.fn = "getRegistrarsPaginated" /\ call.out = Null
  /\ call' = [call EXCEPT !.out = GetRegistrarsPaginated(call.page, call.limit)]
  /\ UNCHANGED <<user_lesson_progress, ctx, pager, authState, AsyncStorage>>

\* signUp runs to its end: its requests, the profiles table, its result
SignUpCall ==
  /\ call.fn = "signUp" /\ call.out = Null
  /\ LET requests == SignUpRequests(call.formData, call.answers[1])
     IN  call' = [call EXCEPT !.out =
                    [requests |-> requests,
                     profiles |-> ProfilesAfter(requests, call.answers[2]),
                     result |-> SignUp(call.answers[1], call.answers[2]).result]]
  /\ UNCHANGED <<user_lesson_progress, ctx, pager, authState, AsyncStorage>>

GetSuggestedDomainsCall ==
  /\ call.fn = "getSuggestedDomains" /\ call.out = Null
  /\ call' = [call EXCEPT !.out = [list |-> GetSuggestedDomains(call.baseDomain)]]
  /\ UNCHANGED <<user_lesson_progress, ctx, pager, authState, AsyncStorage>>

GetPopularSuggestionsCall ==
  /\ call.fn = "getPopularSuggestions" /\ call.out = Null
  /\ call' = [call EXCEPT !.out = [list |-> GetPopularSuggestions]]
  /\ UNCHANGED <<user_lesson_progress, ctx, pager, authState, AsyncStorage>>

NextPure ==
  \/ \E t \in Timestamps : ProgressDataCall(t)
  \/ ValidateDomainNameCall
  \/ GetRegistrarsPaginatedCall
  \/ GetSuggestedDomainsCall
  \/ GetPopularSuggestionsCall
  \/ SignUpCall

SpecPure == InitPure /\ [][NextPure]_vars

(***************************************************************************)
(* SpecPager: the directory is read page after page with one page size.    *)
(***************************************************************************)
LastPage(limit) == (Len(kenicRegistrars) + limit - 1) \div limit

InitPager ==
  /\ user_lesson_progress = EmptyBag
  /\ ctx = [c \in Contexts |-> Idle]
  /\ call = NoCall
  /\ pager \in {[NoPager EXCEPT !.limit = s] : s \in 1..MaxPageSize}
  /\ authState = NoAuthState
  /\ AsyncStorage = {}

FetchNextPage ==
  /\ pager.page < LastPage(pager.limit)
  /\ LET r == GetRegistrarsPaginated(pager.page + 1, pager.limit)
     IN  pager' = [pager EXCEPT !.page = @ + 1,
                                !.registrars = @ \o r.registrars,
                                !.last = r]
  /\ UNCHANGED <<user_lesson_progress, ctx, call, authState, AsyncStorage>>

NextPager == FetchNextPage

SpecPager == InitPager /\ [][NextPager]_vars

(***************************************************************************)
(* SpecSearch: one searchDomain call with every outcome of its requests.   *)
(***************************************************************************)
NextSearch ==
  \/ \E i \in 1..MaxLabels, e \in DomainExtensions : CallSearchDomain(Label(i), e)
  \/ \E o \in FetchOutcomes : FetchReturns(1, o)
  \/ \E o \in JsonOutcomes : JsonReturns(1, o)

SpecSearch == Init /\ [][NextSearch]_vars

(***************************************************************************)
(* SpecBatch: one checkMultipleDomains call; the lookups of a batch are    *)
(* answered in any order.                                                  *)
(***************************************************************************)
Labels(n) == [i \in 1..n |-> Label(i)]
BatchFetchOutcomes ==
  {[kind |-> "response", status |-> st] : st \in {200, 500}}
  \cup {[kind |-> "throw", error |-> NetworkError]}
BatchJsonOutcomes == {[kind |-> "body", available |-> b] : b \in BOOLEAN}

NextBatch ==
  \/ \E n \in 0..MaxLabels, e \in DomainExtensions :
       CallCheckMultipleDomains(Labels(n), e)
  \/ \E j \in 1..MaxLabels, o \in BatchFetchOutcomes : FetchReturns(j, o)
  \/ \E j \in 1..MaxLabels, o \in BatchJsonOutcomes : JsonReturns(j, o)
  \/ AllSettledReturns

SpecBatch == Init /\ [][NextBatch]_vars

(***************************************************************************)
(* SpecBatchFair: one checkMultipleDomains call where every request sent   *)
(* is answered in the end and a resolved await resumes.                    *)
(***************************************************************************)
FairFetchOutcomes == {[kind |-> "response", status |-> st] : st \in {200, 500}}
FairJsonOutcomes == {[kind |-> "body", available |-> TRUE]}

FairFetchReturns == \E j \in 1..MaxLabels, o \in FairFetchOutcomes : FetchReturns(j, o)
FairJsonReturns == \E j \in 1..MaxLabels, o \in FairJsonOutcomes : JsonReturns(j, o)

NextBatchFair ==
  \/ \E n \in 0..MaxLabels : CallCheckMultipleDomains(Labels(n), ".ke")
  \/ FairFetchReturns
  \/ FairJsonReturns
  \/ AllSettledReturns

\* a request in flight is answered, or a resolved await resumes
Progress == FairFetchReturns \/ FairJsonReturns \/ AllSettledReturns

SpecBatchFair == Init /\ [][NextBatchFair]_vars /\ WF_vars(Progress)

(***************************************************************************)
(* SpecOps: every asynchronous operation of the three services, one call   *)
(* at a time, with every outcome of its requests.                          *)
(***************************************************************************)
InitOps ==
  /\ user_lesson_progress = EmptyBag
  /\ ctx = [c \in Contexts |-> Idle]
  /\ call \in {NoCall}
          \cup {[fn |-> f, answers |-> <<a1, a2>>, out |-> Null] :
                  f \in AuthOperations \cup LessonQueries, a1 \in Answers, a2 \in Answers}
          \cup {[fn |-> f, lessonId |-> l, answers |-> <<o>>, out |-> Null] :
                  f \in LessonReads, l \in {1, 99}, o \in Outcomes}
  /\ pager = NoPager
  /\ authState = NoAuthState
  /\ AsyncStorage = {}

NeverCalled == ctx[1] = Idle

NextOps ==
  \/ AuthServiceCall
  \/ LessonsQueryCall
  \/ LessonsReadCall
  \/ call = NoCall /\ \E p \in Percentages : CallUpdateProgress(1, "u1", 1, p)
  \/ \E o \in Outcomes, t \in Timestamps : GetUserProgressReturns(1, o, t)
  \/ \E o \in Outcomes : WriteReturns(1, o)
  \/ call = NoCall /\ \E l \in {1, 99} : CallCompleteLesson(1, "u1", l)
  \/ \E o \in Outcomes : GetLessonReturns(1, o)
  \/ NeverCalled /\ \E i \in 1..MaxLabels, e \in DomainExtensions :
                      CallSearchDomain(Label(i), e)
  \/ NeverCalled /\ \E n \in 0..2 : CallCheckMultipleDomains(Labels(n), ".ke")
  \/ \E j \in 1..2, o \in FetchOutcomes : FetchReturns(j, o)
  \/ \E j \in 1..2, o \in JsonOutcomes : JsonReturns(j, o)
  \/ AllSettledReturns

SpecOps == InitOps /\ [][NextOps]_vars

(***************************************************************************)
(* SpecLessons: one fetchLessons call with every filter and every outcome  *)
(* of its queries.                                                         *)
(***************************************************************************)
NextLessons ==
  \/ \E f \in LessonFilters : CallFetchLessons(f)
  \/ \E a \in QueryAnswers(JoinRows) : JoinQueryReturns(a)
  \/ \E a \in QueryAnswers(SimpleRows) : SimpleQueryReturns(a)

SpecLessons == Init /\ [][NextLessons]_vars


(***************************************************************************)
(* SpecRegress: updateProgress calls, every request succeeding, on the     *)
(* table a user's five completed lessons leave.                            *)
(***************************************************************************)
RegressLessons == 1..5
RegressPercentages == {50, 100}

InitRegress ==
  /\ user_lesson_progress = StatTable(5, 0, 0)
  /\ ctx = [c \in Contexts |-> Idle]
  /\ call = NoCall
  /\ pager = NoPager
  /\ authState = NoAuthState
  /\ AsyncStorage = {}

NextRegress ==
  \/ \E l \in RegressLessons, p \in RegressPercentages : CallUpdateProgress(1, "u1", l, p)
  \/ \E t \in Timestamps : GetUserProgressReturns(1, "ok", t)
  \/ WriteReturns(1, "ok")

SpecRegress == InitRegress /\ [][NextRegress]_vars

(***************************************************************************)
(* SpecLessonDetail: the lesson-detail screen of user "u1" for lesson 1 is *)
(* opened, used and opened again; every request may fail.                  *)
(***************************************************************************)
NextLessonDetail ==
  \/ \E l \in Outcomes, r \in Outcomes : LoadLessonData(l, r)
  \/ \E r \in Outcomes, w \in Outcomes, t \in Timestamps : HandleStartLesson(r, w, t)
  \/ \E r \in Outcomes, w \in Outcomes, t \in Timestamps : HandleContinueLesson(r, w, t)
  \/ \E l \in Outcomes, r \in Outcomes, w \in Outcomes, t \in Timestamps :
       HandleCompleteLesson(l, r, w, t)

SpecLessonDetail == Init /\ [][NextLessonDetail]_vars

(***************************************************************************)
(* SpecDomains: the domain-search screen; searches with valid and invalid  *)
(* labels, every outcome of the lookup, end-reached events of the list.    *)
(* The continuation of handleSearch runs once its awaited call has         *)
(* returned.                                                               *)
(***************************************************************************)
SearchTerms == {Label(1), Label(3), <<"-", "a">>, <<" ">>}

InitDomains ==
  /\ user_lesson_progress = EmptyBag
  /\ ctx = [c \in Contexts |-> Idle]
  /\ call = NoCall
  /\ pager = DomainsScreen
  /\ authState = NoAuthState
  /\ AsyncStorage = {}

NextDomains ==
  \/ \E t \in SearchTerms, e \in DomainExtensions : HandleSearch(t, e)
  \/ \E o \in FetchOutcomes : FetchReturns(1, o)
  \/ \E o \in JsonOutcomes : JsonReturns(1, o)
  \/ SearchDomainReturns
  \/ LoadMoreRegistrars
  \/ DismissError

SpecDomains == InitDomains /\ [][NextDomains]_vars /\ WF_vars(SearchDomainReturns)

(***************************************************************************)
(* SpecAuth: the AuthProvider from its mount, with or without a persisted  *)
(* session: the initial check, auth events, sign-in, sign-up and sign-out, *)
(* their awaited calls returning in any order.                             *)
(***************************************************************************)
InitAuth ==
  /\ user_lesson_progress = EmptyBag
  /\ ctx = [c \in Contexts |-> Idle]
  /\ call = AuthProvider
  /\ pager = NoPager
  /\ authState = NoAuthState
  /\ AsyncStorage \in {{}, {SessionKey}}

NextAuth ==
  \/ \E a1 \in UserAnswers, a2 \in ProfileAnswers : GetCurrentUserReturns(a1, a2)
  \/ CheckAuthStateSettles
  \/ AuthEvent
  \/ \E i \in 1..MaxEvents, a \in ProfileAnswers : EventProfileReturns(i, a)
  \/ \E fn \in {"signIn", "signUp"} : HandleSignIn(fn)
  \/ \E a1 \in UserAnswers, a2 \in ProfileAnswers : SignInReturns(a1, a2)
  \/ SignInSettles
  \/ HandleSignOut
  \/ \E a1 \in SignOutAnswers, a2 \in ClearAnswers : SignOutReturns(a1, a2)
  \/ SignOutSettles

SpecAuth == InitAuth /\ [][NextAuth]_vars

(***************************************************************************)
(* Properties of the progress rows.                                        *)
(***************************************************************************)
RowKeys(tbl) == {<<r.user_id, r.lesson_id>> : r \in DOMAIN tbl}
Returned(c) == ctx[c].pc = "idle" /\ ctx[c].op # "none"
LessonExists(lessonId) == \E x \in lessons : x.id = lessonId

\* C2: after any sequence of updateProgress and completeLesson calls, with
\* every read and write free to fail, each stored row has progress in 0..100,
\* completed exactly when progress >= 100, and a completion time exactly when
\* completed.
C2_RowInvariant ==
  \A r \in DOMAIN user_lesson_progress :
    /\ r.progress \in 0..100
    /\ r.completed <=> r.progress >= 100
    /\ (r.completed_at # NullTime) <=> r.completed

\* C2: a completed row and an unfinished one are stored, and the last call failed
C2_Witness ==
  /\ \E r, s \in DOMAIN user_lesson_progress : r.completed /\ s.progress = 0
  /\ Returned(1) /\ ~ctx[1].result.success

\* C3: the completion time is set only when completed goes from false to
\* true: a write that finds the pair's row completed and leaves it completed
\* keeps its completed_at.
C3_TimestampOnlyOnTransition ==
  [][\A k \in ProgressKeys :
       (/\ CountRows(user_lesson_progress, k[1], k[2]) = 1
        /\ CountRows(user_lesson_progress', k[1], k[2]) = 1)
       => \A r \in MatchingRows(user_lesson_progress, k[1], k[2]),
             s \in MatchingRows(user_lesson_progress', k[1], k[2]) :
            (r.completed /\ s.completed) => s.completed_at = r.completed_at]_vars

\* C4: in a series of calls made one after the other whose reads and writes
\* all succeed, the store holds at most one row per (user, lesson); the insert
\* is issued exactly when the pair has no row and the update exactly when it
\* has one; and after each call the pair's only row is the record just written.
C4_UpsertSequential ==
  /\ \A k \in RowKeys(user_lesson_progress) :
       CountRows(user_lesson_progress, k[1], k[2]) <= 1
  /\ ctx[1].pc = "insert" =>
       CountRows(user_lesson_progress, ctx[1].userId, ctx[1].lessonId) = 0
  /\ ctx[1].pc = "update" =>
       CountRows(user_lesson_progress, ctx[1].userId, ctx[1].lessonId) = 1
  /\ Returned(1) =>
       /\ ctx[1].result = Success(ctx[1].progressData)
       /\ MatchingRows(user_lesson_progress, ctx[1].userId, ctx[1].lessonId)
            = {ctx[1].progressData}

\* C4: a call has overwritten the row an earlier call created, with other
\* pairs' rows in the store
C4_Witness ==
  /\ Returned(1) /\ ctx[1].result.success
  /\ ctx[1].existingProgress.data # Null
  /\ ctx[1].existingProgress.data # ctx[1].progressData
  /\ Cardinality(RowKeys(user_lesson_progress)) = 3

\* C5: two contexts calling updateProgress concurrently leave at most one row
\* per (user, lesson).
C5_AtMostOneRowPerKey ==
  \A k \in RowKeys(user_lesson_progress) :
    CountRows(user_lesson_progress, k[1], k[2]) <= 1

\* C6: when the lesson has no row, or its lookup fails, completeLesson returns
\* the failure 'Lesson not found', has issued no request against
\* user_lesson_progress, and the table is as before.
C6_LessonNotFound ==
  [][\A c \in Contexts :
       (/\ ctx[c].pc = "getLesson"
        /\ ctx'[c].pc # "getLesson"
        /\ (~LessonExists(ctx[c].lessonId) \/ ~ctx'[c].lessonResult.success))
       => /\ ctx'[c].pc = "idle"
          /\ ctx'[c].result = Failure("Lesson not found")
          /\ ctx'[c].requests = 0
          /\ user_lesson_progress' = user_lesson_progress]_vars

\* C6: completeLesson has returned for the lesson id that has no row, with
\* rows in the table
C6_Witness ==
  /\ Returned(1) /\ ctx[1].op = "completeLesson"
  /\ ~LessonExists(ctx[1].lessonId)
  /\ ctx[1].result.error = "Lesson not found"
  /\ user_lesson_progress # EmptyBag

\* C7: a completeLesson whose lesson exists and whose write succeeds leaves
\* for its pair exactly one row, with progress 100, completed and a completion
\* time, and leaves the rows of every other pair as they were.
C7_CompleteLessonFrame ==
  [][\A c \in Contexts :
       (/\ ctx[c].op = "completeLesson"
        /\ ctx[c].pc \in {"update", "insert"}
        /\ ctx'[c].pc = "idle"
        /\ ctx'[c].result.success)
       => /\ CountRows(user_lesson_progress', ctx[c].userId, ctx[c].lessonId) = 1
          /\ \A r \in MatchingRows(user_lesson_progress', ctx[c].userId, ctx[c].lessonId) :
               r.progress = 100 /\ r.completed /\ r.completed_at # NullTime
          /\ \A r \in DOMAIN user_lesson_progress \cup DOMAIN user_lesson_progress' :
               (<<r.user_id, r.lesson_id>> # <<ctx[c].userId, ctx[c].lessonId>>)
               => CopiesIn(r, user_lesson_progress') = CopiesIn(r, user_lesson_progress)]_vars

(***************************************************************************)
(* Properties of the single-step computations.                             *)
(***************************************************************************)
\* C1: for every integer percentage p the record updateProgress builds has
\* progress = min(max(p, 0), 100), within 0..100, and completed exactly when
\* that value is >= 100; p = 130 gives progress 100, completed and a
\* completion time.
C1_ClampAndCompleted ==
  (call.fn = "progressData" /\ call.out # Null) =>
    LET p == call.progress
        d == call.out
    IN  /\ d.progress = (IF p < 0 THEN 0 ELSE IF p > 100 THEN 100 ELSE p)
        /\ d.progress \in 0..100
        /\ d.completed <=> d.progress >= 100
        /\ p = 130 => (d.progress = 100 /\ d.completed /\ d.completed_at # NullTime)

\* C1: the record for p = 130 has been built
C1_Witness ==
  /\ call.fn = "progressData" /\ call.progress = 130
  /\ call.out # Null /\ call.out.progress = 100

\* C8: with c the number of the user's completed rows, a getUserStats whose
\* read succeeds returns completedLessons = c, totalXP = 50c, level =
\* floor(c/4) + 1, badgesEarned = floor(c/5), streakDays = 0; it fails, with a
\* message, exactly when the read fails.
C8_UserStats ==
  call.fn = "getUserStats" =>
    LET done == {r \in DOMAIN user_lesson_progress :
                   r.user_id = call.userId /\ r.completed}
        c == BagCardinality([r \in done |-> user_lesson_progress[r]])
    IN  /\ call.out.success <=> call.outcome = "ok"
        /\ ~call.out.success => call.out.error # ""
        /\ call.out.success =>
             call.out.data = [totalXP |-> 50 * c, level |-> (c \div 4) + 1,
                              completedLessons |-> c, streakDays |-> 0,
                              badgesEarned |-> c \div 5]
        /\ (call.out.success /\ c = 0) =>
             /\ call.out.data.totalXP = 0 /\ call.out.data.level = 1
             /\ call.out.data.completedLessons = 0 /\ call.out.data.badgesEarned = 0

\* C8: stats returned for a user with 9 completed lessons and one started,
\* another user's completed rows in the table
C8_Witness ==
  /\ call.fn = "getUserStats" /\ call.userId = "u1" /\ call.out.success
  /\ call.out.data.completedLessons = 9 /\ call.out.data.level = 3
  /\ \E r \in DOMAIN user_lesson_progress : r.user_id = "u1" /\ ~r.completed
  /\ \E r \in DOMAIN user_lesson_progress : r.user_id = "u2"

\* the form of a valid label: 1..63 characters of [a-z0-9-], no hyphen first or last
LabelOk(s) ==
  /\ Len(s) \in 1..63
  /\ \A i \in 1..Len(s) : s[i] \in Range(LowerCase) \cup Digits \cup {"-"}
  /\ s[1] # "-" /\ s[Len(s)] # "-"

Validated == call.fn = "validateDomainName" /\ call.out # Null

\* C9 as stated: isValid exactly for the labels whose lower-cased form is a
\* valid label.
C9_ValidAfterLowerCase ==
  Validated => (call.out.isValid <=> LabelOk(ToLowerCase(call.domain)))

\* C9, amended: isValid exactly for the labels whose lower-cased form, with
\* leading and trailing white space removed, is a valid label; the verdict of
\* a label is that of its lower-cased form; nothing but the answer changes.
C9_ValidAfterLowerCaseAndTrim ==
  Validated =>
    /\ call.out.isValid <=> LabelOk(Trim(ToLowerCase(call.domain)))
    /\ call.out.isValid = ValidateDomainName(ToLowerCase(call.domain)).isValid
    /\ call.out.isValid <=> call.out.error = ""
    /\ user_lesson_progress = EmptyBag /\ pager = NoPager
    /\ \A c \in Contexts : ctx[c] = Idle

\* C9: a 63-character label in upper and lower case has been accepted
C9_Witness ==
  /\ Validated /\ call.out.isValid
  /\ Len(call.domain) = 63 /\ call.domain[1] = "B" /\ call.domain[62] = "-"

\* C10: walking the directory with page size s, each slice has at most s
\* entries, total is the directory size, the slices of pages 1..k put together
\* are the first min(k*s, N) entries of the directory, and after page
\* ceil(N/s) they are the whole directory, each entry once.
C10_PagesRebuildDirectory ==
  pager.page >= 1 =>
    /\ Len(pager.last.registrars) <= pager.limit
    /\ pager.last.total = Len(kenicRegistrars)
    /\ pager.registrars =
         SubSeq(kenicRegistrars, 1, Min(pager.page * pager.limit, Len(kenicRegistrars)))
    /\ pager.page = LastPage(pager.limit) =>
         /\ pager.registrars = kenicRegistrars
         /\ Cardinality(Range(pager.registrars)) = Len(kenicRegistrars)

\* C10: the last of seven pages of size 3 has been read
C10_Witness ==
  /\ pager.limit = 3 /\ pager.page = 7
  /\ Len(pager.last.registrars) = 2
  /\ pager.registrars = kenicRegistrars

\* C11: for every page size s and every page 1..ceil(N/s) read in a walk,
\* hasMore is false exactly on the final page ceil(N/s) and true on every
\* earlier page; that is, hasMore is true iff page * s < N.
C11_HasMoreUntilFinalPage ==
  pager.page >= 1 =>
    /\ pager.last.hasMore <=> pager.page < LastPage(pager.limit)
    /\ pager.last.hasMore <=> pager.page * pager.limit < Len(kenicRegistrars)

\* C11: the final page of a walk with a page size that divides N has been
\* read: its slice is full and ends at the end of the directory
C11_Witness ==
  /\ pager.limit = 4 /\ pager.page = 5
  /\ Len(pager.last.registrars) = 4
  /\ ~pager.last.hasMore

\* C12: for every page size s >= 1, a page that is out of range, above
\* ceil(N/s) or below 1, gets an empty slice and hasMore = false.
C12_OutOfRangePageIsEmpty ==
  (/\ call.fn = "getRegistrarsPaginated" /\ call.out # Null
   /\ (call.page < 1 \/ call.page > LastPage(call.limit)))
  => (call.out.registrars = <<>> /\ ~call.out.hasMore)

(***************************************************************************)
(* Properties of the domain lookups.                                       *)
(***************************************************************************)
Searched == call # NoCall /\ call.fn = "searchDomain"

\* the call has returned a failure: success = false, a message, no result
ReturnedFailure ==
  /\ call.out # Null
  /\ ~call.out.success /\ call.out.error # "" /\ call.out.data = Null

\* C13: a searchDomain call sends exactly one request, carrying the label
\* lower-cased and trimmed and the extension, however the call ends; when the
\* response's status is not 2xx, or the fetch or the reading of the body
\* throws, the call returns a failure with a message and no search result.
C13_OneRequestAndFailure ==
  Searched =>
    LET l == call.lookups[1]
    IN  /\ call.requests = <<[domain |-> Trim(ToLowerCase(call.domain)),
                              domainType |-> call.extension]>>
        /\ (l.fetched # Null /\ l.fetched.kind = "throw") => ReturnedFailure
        /\ (l.fetched # Null /\ l.fetched.kind = "response"
               /\ l.fetched.status \notin 200..299) => ReturnedFailure
        /\ (l.body # Null /\ l.body.kind = "throw") => ReturnedFailure

\* C13: a call for a label with upper case and blanks has returned the
\* failure of a response with status 500
C13_Witness ==
  /\ Searched /\ ReturnedFailure
  /\ call.lookups[1].fetched.kind = "response" /\ call.lookups[1].fetched.status = 500
  /\ call.domain # call.requests[1].domain
  /\ Len(call.requests) = 1

\* C14: when the response is 2xx and its body is read, searchDomain returns
\* success with {domain, extension, available, registrars}: domain and
\* extension those of the request sent, available the backend's answer,
\* registrars the whole directory if available and absent if not; and it
\* returns success in no other case.
C14_SearchResult ==
  (Searched /\ call.out # Null) =>
    LET l == call.lookups[1]
    IN  /\ call.out.success <=> (l.body # Null /\ l.body.kind = "body")
        /\ call.out.success =>
             /\ call.out.data.domain = call.requests[1].domain
             /\ call.out.data.extension = call.requests[1].domainType
             /\ call.out.data.available = l.body.available
             /\ l.body.available => call.out.data.registrars = kenicRegistrars
             /\ ~l.body.available => call.out.data.registrars = Null
             /\ DOMAIN call.out.data = {"domain", "extension", "available", "registrars"}

\* C14: a call has returned an available domain with the 20 registrars
C14_Witness ==
  /\ Searched /\ call.out # Null /\ call.out.success
  /\ call.out.data.available
  /\ Len(call.out.data.registrars) = 20
  /\ call.out.data.domain = <<"b", "a", "a", "a">>

Multi == call # NoCall /\ call.fn = "checkMultipleDomains"

\* the lookup got a failure: a thrown fetch, a status that is not 2xx, or a
\* body that could not be read
LookupFailed(l) ==
  \/ l.fetched # Null /\ l.fetched.kind = "throw"
  \/ l.fetched # Null /\ l.fetched.kind = "response" /\ l.fetched.status \notin 200..299
  \/ l.body # Null /\ l.body.kind = "throw"

\* the lookup got the backend's answer
LookupAnswered(l) == l.body # Null /\ l.body.kind = "body"

InFlight == {j \in 1..Len(call.lookups) : call.lookups[j].pc # "settled"}

\* C15: whatever the order in which the lookups complete, the i-th lookup is
\* the one for the i-th label, the i-th result collected is the outcome of
\* that lookup, and the call returns one result per label.
C15_ResultsInInputOrder ==
  Multi =>
    /\ \A i \in 1..Len(call.lookups) : call.lookups[i].arg = call.domains[i]
    /\ \A i \in 1..Len(call.results) :
         LET l == call.lookups[i]
             r == call.results[i]
         IN  /\ r.domain = IF LookupAnswered(l) THEN Trim(ToLowerCase(call.domains[i]))
                                                ELSE call.domains[i]
             /\ r.available <=> (LookupAnswered(l) /\ l.body.available)
             /\ r.extension = call.extension
    /\ call.out # Null =>
         /\ call.out.success
         /\ call.out.data = call.results
         /\ Len(call.out.data) = Len(call.domains)

\* C15: a call with two batches has returned; a lookup completed before one
\* issued ahead of it, and the results hold an available, an unavailable and
\* a failed label
C15_Witness ==
  /\ Multi /\ call.out # Null /\ Len(call.domains) = 6
  /\ call.overtaken
  /\ call.out.data[1].available /\ LookupFailed(call.lookups[2])
  /\ LookupAnswered(call.lookups[3]) /\ ~call.out.data[3].available
  /\ call.out.data[6].available

\* C16: the lookups are issued one per label, in the order of the labels, in
\* groups of 5 (the last may be shorter); a lookup of a later group is issued
\* only when every lookup of the groups before has settled; at most 5 lookups
\* are in flight.
C16_BatchesOfFive ==
  Multi =>
    /\ Len(call.requests) = Len(call.lookups)
    /\ Len(call.lookups) <= Len(call.domains)
    /\ Len(call.lookups) = Len(call.domains) \/ Len(call.lookups) % 5 = 0
    /\ call.domains # <<>> => call.lookups # <<>>
    /\ \A j \in 1..Len(call.lookups) :
         /\ call.lookups[j].arg = call.domains[j]
         /\ call.requests[j] = [domain |-> Trim(ToLowerCase(call.domains[j])),
                                domainType |-> call.extension]
    /\ \A j, k \in 1..Len(call.lookups) :
         (j - 1) \div 5 < (k - 1) \div 5 => call.lookups[j].pc = "settled"
    /\ Cardinality(InFlight) <= 5
    /\ call.out # Null => Len(call.lookups) = Len(call.domains)

\* C16: the sixth label's lookup is in flight, the five of the first batch
\* settled and collected
C16_Witness ==
  /\ Multi /\ Len(call.domains) = 6 /\ Len(call.lookups) = 6
  /\ call.lookups[6].pc = "json"
  /\ Len(call.results) = 5
  /\ call.out = Null

\* C17: a label whose lookup fails gets the result {domain: label, extension,
\* available: false} without registrars; every label whose lookup is answered
\* gets that lookup's own result; and the call returns success with all the
\* results.
C17_FailureIsolated ==
  Multi =>
    /\ \A i \in 1..Len(call.results) :
         LET l == call.lookups[i]
         IN  /\ LookupFailed(l) =>
                  call.results[i] = [domain |-> call.domains[i],
                                     extension |-> call.extension,
                                     available |-> FALSE, registrars |-> Null]
             /\ LookupAnswered(l) =>
                  call.results[i] = [domain |-> l.request.domain,
                                     extension |-> call.extension,
                                     available |-> l.body.available,
                                     registrars |-> IF l.body.available
                                                    THEN kenicRegistrars ELSE Null]
    /\ call.out # Null =>
         /\ call.out = Success(call.results)
         /\ Len(call.results) = Len(call.domains)
         /\ \A i \in 1..Len(call.results) :
              LookupFailed(call.lookups[i]) \/ LookupAnswered(call.lookups[i])

\* C17: a call for three labels has returned three results: the second
\* label's lookup failed, the first is available and the third is not
C17_Witness ==
  /\ Multi /\ call.out # Null /\ Len(call.domains) = 3
  /\ Len(call.out.data) = 3
  /\ LookupFailed(call.lookups[2]) /\ ~call.out.data[2].available
  /\ call.out.data[1].available /\ call.out.data[1].registrars = kenicRegistrars
  /\ LookupAnswered(call.lookups[3]) /\ ~call.out.data[3].available

\* C18: when every lookup issued settles in the end, the call returns, and
\* it has then issued as many lookups as there are labels; while a lookup of
\* the current batch has not settled, no further lookup is issued and the
\* call does not return.
C18_ReturnsWhenAllSettle ==
  /\ Multi ~> (Multi /\ call.out # Null)
  /\ [](Multi /\ call.out # Null => Len(call.requests) = Len(call.domains))
  /\ [][(Multi /\ InFlight # {}) =>
          (call'.requests = call.requests /\ call'.out = Null)]_vars

\* C18: a call for six labels has returned after six lookups
C18_Witness ==
  /\ Multi /\ call.out # Null
  /\ Len(call.domains) = 6 /\ Len(call.requests) = 6
  /\ InFlight = {}

\* C20: a getUserProgress whose query is answered returns success: with null
\* data when the pair has no row (the backend's 'row not found'), with the
\* row when it has one; it returns a failure, with the error's message,
\* exactly when the backend answers another error or the request throws.
C20_NotFoundIsEmpty ==
  (call # NoCall /\ call.fn = "getUserProgress") =>
    LET hit == {r \in DOMAIN user_lesson_progress :
                  r.user_id = call.userId /\ r.lesson_id = call.lessonId}
    IN  /\ (call.outcome = "ok" /\ hit = {}) => call.out = Success(Null)
        /\ (call.outcome = "ok" /\ hit # {}) =>
             (call.out.success /\ call.out.data \in hit)
        /\ ~call.out.success <=> call.outcome \in {"error", "throw"}
        /\ ~call.out.success => call.out.error \in {BackendMessage, ThrownMessage}

\* C20: getUserProgress has returned the empty result for a pair without a
\* row, the table holding another user's row for the same lesson
C20_Witness ==
  /\ call # NoCall /\ call.fn = "getUserProgress"
  /\ call.userId = "u2" /\ call.lessonId = 1 /\ call.outcome = "ok"
  /\ call.out = Success(Null)
  /\ \E r \in DOMAIN user_lesson_progress : r.user_id = "u1" /\ r.lesson_id = 1

(***************************************************************************)
(* Properties of all operations.                                           *)
(***************************************************************************)
\* the shape {success, data?, error?}; a failure carries a message
Uniform(r) ==
  /\ DOMAIN r = {"success", "data", "error"}
  /\ r.success \in BOOLEAN
  /\ ~r.success => (r.error \in STRING /\ r.error # "")

Candidates(base) ==
  << base, base \o <<"k", "e">>, base \o <<"o", "n", "l", "i", "n", "e">>,
     <<"m", "y">> \o base, base \o <<"s", "i", "t", "e">>, base \o <<"w", "e", "b">> >>

\* the k-th smallest member of a set of numbers
Nth(S, k) == CHOOSE i \in S : Cardinality({j \in S : j <= i}) = k

Suggested == call.fn = "getSuggestedDomains" /\ call.out # Null

\* C23: getSuggestedDomains(base) returns exactly the candidates among
\* [base, base+'ke', base+'online', 'my'+base, base+'site', base+'web'] that
\* pass validateDomainName, in that order (possibly none), and every entry
\* of the getPopularSuggestions list passes validateDomainName.
C23_SuggestionsAreValid ==
  /\ Suggested =>
       LET cand == Candidates(call.baseDomain)
           valid == {i \in 1..6 : ValidateDomainName(cand[i]).isValid}
           list == call.out.list
       IN  /\ Len(list) = Cardinality(valid)
           /\ \A k \in 1..Len(list) : list[k] = cand[Nth(valid, k)]
           /\ \A k \in 1..Len(list) : LabelOk(Trim(ToLowerCase(list[k])))
  /\ (call.fn = "getPopularSuggestions" /\ call.out # Null) =>
       /\ Len(call.out.list) = 10
       /\ \A k \in 1..10 :
            ValidateDomainName(call.out.list[k]).isValid /\ LabelOk(call.out.list[k])

\* C23: a base of 60 characters that ends with a hyphen got exactly
\* base+'ke' and base+'web': the base is invalid, the others are too long
C23_Witness ==
  /\ Suggested
  /\ call.baseDomain = Body(59) \o <<"-">>
  /\ call.out.list = << call.baseDomain \o <<"k", "e">>, call.baseDomain \o <<"w", "e", "b">> >>

(***************************************************************************)
(* Properties of fetchLessons.                                             *)
(***************************************************************************)
Fetching == call # NoCall /\ call.fn = "fetchLessons"
Gave(a) == a.kind = "data"
RowsOf(a) == IF a.data = Null THEN [array |-> <<>>] ELSE a.data

\* the filters a query of this call must carry
Filtered(q) ==
  /\ q.status = "published"
  /\ q.category = (IF call.filter # Null /\ call.filter.category \notin {Undefined, ""}
                   THEN call.filter.category ELSE Undefined)
  /\ q.difficulty = (IF call.filter # Null /\ call.filter.difficulty \notin {Undefined, ""}
                     THEN call.filter.difficulty ELSE Undefined)

\* the join query first, the join-less query only after the join query
\* returned an error, same filters, at most two queries; the rows of the
\* first query that gave data
QueriesInOrder ==
  /\ Len(call.requests) \in 1..2
  /\ call.requests[1].select # "*" /\ Filtered(call.requests[1])
  /\ Len(call.requests) = 2 =>
       /\ call.answers[1].kind = "error"
       /\ call.requests[2].select = "*" /\ Filtered(call.requests[2])
  /\ (Len(call.answers) >= 1 /\ call.answers[1].kind = "error") => Len(call.requests) = 2
  /\ call.out # Null =>
       /\ Gave(call.answers[1]) => call.out = Success(RowsOf(call.answers[1]))
       /\ (Len(call.answers) = 2 /\ Gave(call.answers[2]))
            => call.out = Success(RowsOf(call.answers[2]))

\* C24 as stated: join query first, join-less query only after a returned
\* error, same filters, at most two queries, success with the rows of the
\* first query that succeeds, and failure only when both queries failed.
C24_FailureOnlyWhenBothFail ==
  Fetching =>
    /\ QueriesInOrder
    /\ (call.out # Null /\ ~call.out.success) =>
         (Len(call.answers) = 2 /\ ~Gave(call.answers[1]) /\ ~Gave(call.answers[2]))

\* C24: join query first, join-less query only after the join query returned
\* an error, same filters, at most two queries, success with the rows of
\* the first query that gives data; failure exactly when both queries
\* returned an error or a query threw, and a join query that throws is
\* followed by no second query.
C24_FallbackOnReturnedError ==
  Fetching =>
    /\ QueriesInOrder
    /\ call.out # Null =>
         (~call.out.success <=>
            \/ call.answers[1].kind = "throw" /\ Len(call.requests) = 1
            \/ /\ Len(call.answers) = 2
               /\ call.answers[1].kind = "error"
               /\ call.answers[2].kind \in {"error", "throw"})

\* C24: with a category filter, the join query returned an error, the
\* join-less query went out with the same filter and gave the rows returned
C24_Witness ==
  /\ Fetching /\ call.out = Success(SimpleRows)
  /\ call.filter = [category |-> "web", difficulty |-> ""]
  /\ call.answers[1].kind = "error"
  /\ call.requests[2].category = "web" /\ call.requests[2].difficulty = Undefined

(***************************************************************************)
(* Properties of the write updateProgress chooses.                         *)
(***************************************************************************)
\* C26: when the existence check of updateProgress settles, an insert is
\* issued only if no row exists for (user, lesson) and an update is issued
\* whenever a row exists, also when the existence check itself failed.
C26_InsertOnlyWhenAbsent ==
  [][\A c \in Contexts :
       (ctx[c].pc = "getUserProgress" /\ ctx'[c].pc \in {"insert", "update"})
       => (ctx'[c].pc = "insert"
             <=> CountRows(user_lesson_progress, ctx[c].userId, ctx[c].lessonId) = 0)]_vars

(***************************************************************************)
(* Properties of completion over a sequence of updateProgress calls.       *)
(***************************************************************************)
\* what getUserStats returns for the user when its read succeeds
Stats(tbl, userId) == GetUserStats(tbl, userId, "ok").data

\* C27: a successful updateProgress with a percentage below 100 on a
\* completed row leaves the row with completed = false and no completion
\* time, and the getUserStats of the user then returns one completed lesson
\* and 50 XP less, and a level and a badge count that are no higher.
C27_CompletionNotSticky ==
  [][\A c \in Contexts :
       (/\ ctx[c].pc = "update" /\ ctx'[c].pc = "idle" /\ ctx'[c].result.success
        /\ ctx[c].progress < 100
        /\ \E r \in MatchingRows(user_lesson_progress, ctx[c].userId, ctx[c].lessonId) :
             r.completed)
       => LET before == Stats(user_lesson_progress, ctx[c].userId)
              after == Stats(user_lesson_progress', ctx[c].userId)
          IN  /\ \A r \in MatchingRows(user_lesson_progress', ctx[c].userId, ctx[c].lessonId) :
                   ~r.completed /\ r.completed_at = NullTime
              /\ after.completedLessons = before.completedLessons - 1
              /\ after.totalXP = before.totalXP - 50
              /\ after.level <= before.level
              /\ after.badgesEarned <= before.badgesEarned]_vars

\* C27: after updateProgress calls with 50 on two of the user's five
\* completed lessons, getUserStats gives 3 completed lessons, 150 XP, level 1
\* and no badge, where it gave 5, 250, level 2 and one badge
C27_Witness ==
  /\ Returned(1) /\ ctx[1].result.success
  /\ ctx[1].existingProgress.data # Null /\ ctx[1].existingProgress.data.completed
  /\ ~ctx[1].progressData.completed
  /\ Stats(StatTable(5, 0, 0), "u1") =
       [totalXP |-> 250, level |-> 2, completedLessons |-> 5, streakDays |-> 0,
        badgesEarned |-> 1]
  /\ Stats(user_lesson_progress, "u1") =
       [totalXP |-> 150, level |-> 1, completedLessons |-> 3, streakDays |-> 0,
        badgesEarned |-> 0]

(***************************************************************************)
(* Properties of the lesson-detail screen.                                 *)
(***************************************************************************)
\* a handler of the screen has issued its service call
HandlerStep ==
  \/ \E r \in Outcomes, w \in Outcomes, t \in Timestamps : HandleStartLesson(r, w, t)
  \/ \E r \in Outcomes, w \in Outcomes, t \in Timestamps : HandleContinueLesson(r, w, t)
  \/ \E l \in Outcomes, r \in Outcomes, w \in Outcomes, t \in Timestamps :
       HandleCompleteLesson(l, r, w, t)

\* C28: over any sequence of Start, Continue and Complete actions on the
\* lesson-detail screen the percentage requested for the lesson never
\* decreases, and once the displayed progress is completed no handler of
\* the screen issues a further updateProgress or completeLesson call.
C28_RequestedNeverDecreases ==
  [][(Mounted /\ call' # NoCall)
       => /\ call'.requested >= call.requested
          /\ (call.progress # Null /\ call.progress.completed) => ~HandlerStep]_vars

(***************************************************************************)
(* Properties of the domain-search screen.                                 *)
(***************************************************************************)
\* the label a search term stands for
Cleaned(searchTerm) == Trim(ToLowerCase(searchTerm))

\* the steps of the search: a rejected label sets an error and sends
\* nothing; an accepted one enters loading with one lookup for the cleaned
\* label; while loading the one lookup stays the only one; loading ends
\* when the lookup has settled, with its result shown or an error set
SearchSteps ==
  /\ \A t \in SearchTerms, e \in DomainExtensions :
       HandleSearch(t, e) =>
         IF LabelOk(Cleaned(t))
         THEN /\ ~pager.loading /\ pager'.loading /\ pager'.error = ""
              /\ call = NoCall /\ call' # NoCall
              /\ call'.requests = <<[domain |-> Cleaned(t), domainType |-> e]>>
         ELSE /\ ~pager'.loading /\ pager'.error # ""
              /\ call = NoCall /\ call' = NoCall
  /\ pager.loading =>
       /\ call # NoCall /\ Len(call.requests) = 1
       /\ call' = NoCall \/ call'.requests = call.requests
  /\ (pager.loading /\ ~pager'.loading) =>
       /\ call.out # Null
       /\ IF call.out.success
          THEN pager'.searchResult = call.out.data /\ pager'.error = ""
          ELSE pager'.error # "" /\ pager'.searchResult = pager.searchResult
  /\ (~pager.loading /\ pager'.loading) => call = NoCall

\* C25: a search whose label fails validateDomainName sets an error and
\* issues no lookup; a search that enters searching issues exactly one
\* lookup and starts no second one while it is in flight; and whenever the
\* lookup has settled (success, failure or exception) the screen leaves
\* searching, with the result shown or an error set.
C25_SearchLifecycle ==
  /\ [][SearchSteps]_vars
  /\ (pager.loading /\ call # NoCall /\ call.out # Null) ~> ~pager.loading

\* C25: after a search that resolved, a later search has ended with the
\* error of its lookup, and the screen is idle again with that error set
C25_Witness ==
  /\ ~pager.loading /\ call = NoCall
  /\ pager.searchResult # Null
  /\ pager.error = "HTTP error: 500"

\* C29: the displayed registrar list has no duplicate entry and is a prefix
\* of the directory in directory order, and registrars are shown only
\* while the displayed search result has available = true.
C29_RegistrarList ==
  /\ \A i, j \in 1..Len(pager.registrars) :
       pager.registrars[i] = pager.registrars[j] => i = j
  /\ Len(pager.registrars) <= Len(kenicRegistrars)
  /\ \A i \in 1..Len(pager.registrars) : pager.registrars[i] = kenicRegistrars[i]
  /\ pager.showRegistrars =>
       pager.searchResult # Null /\ pager.searchResult.available

\* C29: registrars are shown after an available result, the end of the list
\* has been reached, and a later search has failed
C29_Witness ==
  /\ pager.showRegistrars /\ pager.ended >= 1
  /\ Len(pager.registrars) = 20 /\ pager.registrarPage = 1
  /\ pager.error # "" /\ ~pager.loading

(***************************************************************************)
(* Properties of registration.                                             *)
(***************************************************************************)
\* C22: whatever the submitted form contains, signUp sends role 'student'
\* in the user metadata of auth.signUp and in the profile row it inserts,
\* and a profile row it creates has role 'student'.
C22_StudentOnly ==
  (call.fn = "signUp" /\ call.out # Null) =>
    /\ Len(call.out.requests) \in 1..2
    /\ call.out.requests[1].to = "auth.signUp"
    /\ call.out.requests[1].data.role = "student"
    /\ Len(call.out.requests) = 2 =>
         /\ call.out.requests[2].to = "profiles.insert"
         /\ call.out.requests[2].role = "student"
    /\ \A row \in call.out.profiles : row.role = "student"

\* C22: a form that carries role 'admin' was submitted, the sign-up
\* succeeded and its profile row was created
C22_Witness ==
  /\ call.fn = "signUp" /\ call.out # Null
  /\ call.formData.role = "admin"
  /\ call.out.result.success
  /\ call.out.profiles # {}

(***************************************************************************)
(* Properties of the session.                                              *)
(***************************************************************************)
\* C21: when a user-triggered sign-out has finished, the local persisted
\* session cache is fully cleared and the auth state has user = null; and
\* no step other than the sign-out's service call empties the cache.
C21_SignOutClearsCache ==
  [][/\ SignOutSettles => (AsyncStorage' = {} /\ authState'.user = Null)
     /\ (AsyncStorage # {} /\ AsyncStorage' = {})
          => (call.handler.fn = "signOut" /\ call.handler.pc = "service")]_vars

\* C30: once a sign-out has completed and set user = null, no callback of
\* an auth event raised before the sign-out, and no initial check started
\* before it, sets user again: while user is null the navigator stays on
\* the auth stack until a sign-in, a sign-up or a new auth event.
C30_SignedOutStaysSignedOut ==
  [][(call.handler.fn = "signedOut" /\ authState.user = Null)
       => /\ \A i \in 1..Len(call.events), a \in ProfileAnswers :
               (EventProfileReturns(i, a) /\ call.events[i].stale)
                 => authState'.user = Null
          /\ (CheckAuthStateSettles /\ call.checkAuthState.stale)
               => authState'.user = Null]_vars

====
